---- MODULE Spec2Model ----
(***************************************************************************)
(* A model of karabo_data/geometry2.py: detector geometry fragments, their *)
(* snapping to a pixel grid, the lazily cached snapped layout of a         *)
(* geometry object and the assembly of detector data with it.              *)
(*                                                                         *)
(* Numbers.  Positions and direction vectors are floats in the code.  The  *)
(* model holds them in fixed point: the integer v stands for v / Scale.    *)
(* Pixel counts and grid indexes are plain integers.  Python's 0-based     *)
(* index k of a tuple is index k+1 of the TLA+ tuple; array indexes (the   *)
(* contents of index tuples) stay 0-based as in numpy.                     *)
(*                                                                         *)
(* Exceptions.  An operator that models a function which may raise returns *)
(* either Return(v) or Raise(exc, site): the exception's Python type and   *)
(* the function whose statement raised it.                                 *)
(***************************************************************************)
EXTENDS Integers, Sequences, FiniteSets, TLC

VARIABLES
    frag,           \* a GeometryFragment under test (fragment-level operations)
    snap_ret,       \* the outcome of frag.snap(), or NoResult before the call
    geom,           \* the detector geometry object: its class and self.modules
    snapped_cache,  \* self._snapped_cache: None or a SnappedGeometry object
    nobj,           \* number of SnappedGeometry objects constructed so far
    th,             \* per thread: position in the running call and its locals
    calls_left,     \* number of calls the threads may still start
    feed,           \* the data arrays the callers hold
    quad_args,      \* the arguments for from_quad_positions, or NoArgs
    nan_to_int      \* what np.full does with np.nan for an integer dtype in
                    \* this build, "unknown" until a call has done it

vars == <<frag, snap_ret, geom, snapped_cache, nobj, th, calls_left, feed, quad_args,
          nan_to_int>>

(***************************************************************************)
(* Bounds of the model.                                                    *)
(***************************************************************************)
\* Fixed-point resolution: v stands for v / Scale.
Scale == 10
\* Number of modules of the detector class: 16.
NumModules == 16
\* Modules of the geometries the callers construct themselves.
GridRows == 3
\* Tiles per module of the detector class; 8 for AGIPD-1M.
TilesPerModule == 2
\* Slow-scan pixels per tile; 64 for AGIPD-1M.
FragSS == 2
\* Fast-scan pixels per tile; 128 for AGIPD-1M.
FragFS == 3
\* Threads sharing one geometry object.
NumThreads == 2
\* Calls the threads make on the shared geometry object, in all.
MaxCalls == 2

(***************************************************************************)
(* Outcomes of calls.                                                      *)
(***************************************************************************)
NoResult == [status |-> "none"]
Return(v) == [status |-> "return", value |-> v]
Raise(exc, site) == [status |-> "raise", exc |-> exc, site |-> site]
Returned(r) == r.status = "return"
Raised(r) == r.status = "raise"

\* self._snapped_cache = None
None == [id |-> 0]

(***************************************************************************)
(* Numeric helpers.                                                        *)
(***************************************************************************)
Abs(n) == IF n < 0 THEN -n ELSE n
Min(a, b) == IF a < b THEN a ELSE b
Max(a, b) == IF a > b THEN a ELSE b

\* Around with a tie going up instead of to the even integer.
AroundHalfUp(v) == (2 * v + Scale) \div (2 * Scale)

\* Around cutting the fraction off instead of rounding.
AroundTowardsZero(v) == IF v >= 0 THEN v \div Scale ELSE -((-v) \div Scale)

\* np.around of the float v / Scale, then astype(np.int32): round to the
\* nearest integer, a tie going to the even one.
Around(v) ==
    LET q == v \div Scale
        r == v % Scale
    IN  IF 2 * r < Scale THEN q
        ELSE IF 2 * r > Scale THEN q + 1
        ELSE IF q % 2 = 0 THEN q ELSE q + 1

\* float.astype(int): truncation towards zero.
Trunc(v) == IF v >= 0 THEN v \div Scale ELSE -((-v) \div Scale)

\* seq[::-1]
Reversed(s) == [k \in 1..Len(s) |-> s[Len(s) + 1 - k]]

(***************************************************************************)
(* GeometryFragment and GridGeometryFragment.                              *)
(***************************************************************************)
\* GeometryFragment.__init__: coordinates are (x, y, z) in pixel units.
GeometryFragment(corner_pos, ss_vec, fs_vec, ss_pixels, fs_pixels) ==
    [corner_pos |-> corner_pos, ss_vec |-> ss_vec, fs_vec |-> fs_vec,
     ss_pixels |-> ss_pixels, fs_pixels |-> fs_pixels]

\* GridGeometryFragment.__init__ whose transposing branch slices with
\* [..., ::ss_order, ::fs_order], as the other branch does.
GridGeometryFragmentSameSlices(corner_pos, ss_vec, fs_vec, ss_pixels, fs_pixels) ==
    LET noswap == fs_vec[1] = 0
        fs_order == IF noswap THEN fs_vec[2] ELSE fs_vec[1]
        ss_order == IF noswap THEN ss_vec[1] ELSE ss_vec[2]
        corner_shift ==
            IF noswap
            THEN <<Min(ss_order, 0) * ss_pixels, Min(fs_order, 0) * fs_pixels>>
            ELSE <<Min(fs_order, 0) * fs_pixels, Min(ss_order, 0) * ss_pixels>>
        pixel_dims ==
            IF noswap THEN <<ss_pixels, fs_pixels>> ELSE <<fs_pixels, ss_pixels>>
        corner_idx == <<corner_pos[1] + corner_shift[1],
                        corner_pos[2] + corner_shift[2]>>
    IN  [ss_vec |-> ss_vec, fs_vec |-> fs_vec,
         ss_pixels |-> ss_pixels, fs_pixels |-> fs_pixels,
         transform |-> [swapaxes |-> ~noswap, row_step |-> ss_order,
                        col_step |-> fs_order],
         pixel_dims |-> pixel_dims,
         corner_idx |-> corner_idx,
         opp_corner_idx |-> <<corner_idx[1] + pixel_dims[1],
                              corner_idx[2] + pixel_dims[2]>>]

\* GridGeometryFragment.__init__ whose transposing branch shifts the
\* corner by (ss, fs) extents, as the other branch does.
GridGeometryFragmentSameShift(corner_pos, ss_vec, fs_vec, ss_pixels, fs_pixels) ==
    LET noswap == fs_vec[1] = 0
        fs_order == IF noswap THEN fs_vec[2] ELSE fs_vec[1]
        ss_order == IF noswap THEN ss_vec[1] ELSE ss_vec[2]
        pixel_dims ==
            IF noswap THEN <<ss_pixels, fs_pixels>> ELSE <<fs_pixels, ss_pixels>>
        corner_idx == <<corner_pos[1] + Min(ss_order, 0) * ss_pixels,
                        corner_pos[2] + Min(fs_order, 0) * fs_pixels>>
    IN  [ss_vec |-> ss_vec, fs_vec |-> fs_vec,
         ss_pixels |-> ss_pixels, fs_pixels |-> fs_pixels,
         transform |->
            IF noswap
            THEN [swapaxes |-> FALSE, row_step |-> ss_order, col_step |-> fs_order]
            ELSE [swapaxes |-> TRUE, row_step |-> fs_order, col_step |-> ss_order],
         pixel_dims |-> pixel_dims,
         corner_idx |-> corner_idx,
         opp_corner_idx |-> <<corner_idx[1] + pixel_dims[1],
                              corner_idx[2] + pixel_dims[2]>>]

\* GridGeometryFragment.__init__: coordinates are (y, x) integer indexes.
\* The transform lambda is held as its captured choices: whether it swaps
\* the last two axes, and the slice steps it applies to rows and columns.
GridGeometryFragment(corner_pos, ss_vec, fs_vec, ss_pixels, fs_pixels) ==
    LET noswap == fs_vec[1] = 0
        fs_order == IF noswap THEN fs_vec[2] ELSE fs_vec[1]
        ss_order == IF noswap THEN ss_vec[1] ELSE ss_vec[2]
        transform ==
            IF noswap
            THEN [swapaxes |-> FALSE, row_step |-> ss_order, col_step |-> fs_order]
            ELSE [swapaxes |-> TRUE, row_step |-> fs_order, col_step |-> ss_order]
        corner_shift ==
            IF noswap
            THEN <<Min(ss_order, 0) * ss_pixels, Min(fs_order, 0) * fs_pixels>>
            ELSE <<Min(fs_order, 0) * fs_pixels, Min(ss_order, 0) * ss_pixels>>
        pixel_dims ==
            IF noswap THEN <<ss_pixels, fs_pixels>> ELSE <<fs_pixels, ss_pixels>>
        corner_idx == <<corner_pos[1] + corner_shift[1],
                        corner_pos[2] + corner_shift[2]>>
    IN  [ss_vec |-> ss_vec, fs_vec |-> fs_vec,
         ss_pixels |-> ss_pixels, fs_pixels |-> fs_pixels,
         transform |-> transform,
         pixel_dims |-> pixel_dims,
         corner_idx |-> corner_idx,
         opp_corner_idx |-> <<corner_idx[1] + pixel_dims[1],
                              corner_idx[2] + pixel_dims[2]>>]

\* The assert of GeometryFragment.snap on the rounded in-plane vectors.
SnapAssert(ss_vec, fs_vec) ==
    {<<Abs(ss_vec[1]), Abs(ss_vec[2])>>, <<Abs(fs_vec[1]), Abs(fs_vec[2])>>}
        = {<<0, 1>>, <<1, 0>>}

\* snap passing (x, y) on without the swap to (y, x).
snap_without_swap(self) ==
    LET corner_pos == <<Around(self.corner_pos[1]), Around(self.corner_pos[2])>>
        ss_vec == <<Around(self.ss_vec[1]), Around(self.ss_vec[2])>>
        fs_vec == <<Around(self.fs_vec[1]), Around(self.fs_vec[2])>>
    IN  IF ~SnapAssert(ss_vec, fs_vec)
        THEN Raise("AssertionError", "GeometryFragment.snap")
        ELSE Return(GridGeometryFragment(corner_pos, ss_vec, fs_vec,
                                         self.ss_pixels, self.fs_pixels))

\* GeometryFragment.snap
snap(self) ==
    LET corner_pos == <<Around(self.corner_pos[1]), Around(self.corner_pos[2])>>
        ss_vec == <<Around(self.ss_vec[1]), Around(self.ss_vec[2])>>
        fs_vec == <<Around(self.fs_vec[1]), Around(self.fs_vec[2])>>
    IN  IF ~SnapAssert(ss_vec, fs_vec)
        THEN Raise("AssertionError", "GeometryFragment.snap")
        ELSE Return(GridGeometryFragment(Reversed(corner_pos), Reversed(ss_vec),
                                         Reversed(fs_vec),
                                         self.ss_pixels, self.fs_pixels))

(***************************************************************************)
(* numpy arrays: a shape and a value for every index tuple of that shape.  *)
(***************************************************************************)
RECURSIVE Indices(_)
\* All index tuples of an array of shape sh.
Indices(sh) ==
    LET along(k) == 0..(sh[k] - 1)
    IN  CASE Len(sh) = 0 -> {<<>>}
          [] Len(sh) = 2 -> along(1) \X along(2)
          [] Len(sh) = 3 -> along(1) \X along(2) \X along(3)
          [] Len(sh) = 4 -> along(1) \X along(2) \X along(3) \X along(4)
          [] OTHER -> {<<i>> \o rest : i \in along(1), rest \in Indices(Tail(sh))}

\* The no-data value np.nan that np.full fills the output with.  Data
\* values of the model are non-negative, so it differs from all of them.
NaN == -1

\* The dtypes of the model's arrays are "float64", "float32" and "int64".
IsInteger(dtype) == dtype = "int64"

\* What storing np.nan in an array of an integer dtype does in np.full,
\* by the numpy of the build: ValueError (cannot convert float NaN to
\* integer), or silently the integer the cast of NaN yields.
NanToInt == {"ValueError", "IntMin"}

\* The integer a silent cast of NaN yields; it stands for the least int64
\* and differs from all data values of the model.
IntMin == -2

\* np.full(shape, fill, dtype=dtype) in a build that treats NaN for an
\* integer dtype as nan_as_int says.
Full(shape, fill, dtype, nan_as_int) ==
    IF fill = NaN /\ IsInteger(dtype)
    THEN IF nan_as_int = "ValueError"
         THEN Raise("ValueError", "SnappedGeometry.position_modules")
         ELSE Return([shape |-> shape, val |-> [idx \in Indices(shape) |-> IntMin],
                      dtype |-> dtype])
    ELSE Return([shape |-> shape, val |-> [idx \in Indices(shape) |-> fill],
                 dtype |-> dtype])

\* shape[-k:]
LastDims(shape, k) ==
    IF Len(shape) <= k THEN shape ELSE SubSeq(shape, Len(shape) - k + 1, Len(shape))
\* shape[:-k]
LeadDims(shape, k) ==
    IF Len(shape) <= k THEN <<>> ELSE SubSeq(shape, 1, Len(shape) - k)

\* arr[..., i, :, :] for an array of at least three dimensions and an
\* index i within its third-to-last axis.
TakeModule(arr, i) ==
    LET n == Len(arr.shape)
        shape == LeadDims(arr.shape, 3) \o LastDims(arr.shape, 2)
    IN  [shape |-> shape,
         val |-> [idx \in Indices(shape) |->
                    arr.val[SubSeq(idx, 1, n - 3) \o <<i>> \o SubSeq(idx, n - 2, n - 1)]],
         dtype |-> arr.dtype]

\* np.split(arr, parts, axis=-2)[k]: rows k*R/parts .. (k+1)*R/parts - 1.
SplitRows(arr, parts, k) ==
    LET n == Len(arr.shape)
        rows == arr.shape[n - 1] \div parts
        shape == [arr.shape EXCEPT ![n - 1] = rows]
    IN  [shape |-> shape,
         val |-> [idx \in Indices(shape) |->
                    arr.val[[idx EXCEPT ![n - 1] = k * rows + idx[n - 1]]]],
         dtype |-> arr.dtype]

\* np.split(arr, parts, axis=-1)[k]: columns k*C/parts .. (k+1)*C/parts - 1.
SplitCols(arr, parts, k) ==
    LET n == Len(arr.shape)
        cols == arr.shape[n] \div parts
        shape == [arr.shape EXCEPT ![n] = cols]
    IN  [shape |-> shape,
         val |-> [idx \in Indices(shape) |->
                    arr.val[[idx EXCEPT ![n] = k * cols + idx[n]]]],
         dtype |-> arr.dtype]

\* Position read by a slice with step 1 or -1 over an axis of length len.
Stepped(step, len, k) == IF step < 0 THEN len - 1 - k ELSE k

\* GridGeometryFragment.transform, the lambda built by __init__:
\*   arr[..., ::row_step, ::col_step]                    (no swap)
\*   arr.swapaxes(-1, -2)[..., ::row_step, ::col_step]   (swap)
Transform(tf, arr) ==
    LET n == Len(arr.shape)
        rows == IF tf.swapaxes THEN arr.shape[n] ELSE arr.shape[n - 1]
        cols == IF tf.swapaxes THEN arr.shape[n - 1] ELSE arr.shape[n]
        shape == [arr.shape EXCEPT ![n - 1] = rows, ![n] = cols]
    IN  [shape |-> shape,
         val |-> [idx \in Indices(shape) |->
                    LET r == Stepped(tf.row_step, rows, idx[n - 1])
                        c == Stepped(tf.col_step, cols, idx[n])
                    IN  IF tf.swapaxes
                        THEN arr.val[[idx EXCEPT ![n - 1] = c, ![n] = r]]
                        ELSE arr.val[[idx EXCEPT ![n - 1] = r, ![n] = c]]],
         dtype |-> arr.dtype]

\* numpy's rule for assigning an array of shape src to a region of shape
\* dst with the same number of dimensions: equal, or 1, on every axis.
Broadcastable(src, dst) ==
    /\ Len(src) = Len(dst)
    /\ \A k \in 1..Len(src) : src[k] = dst[k] \/ src[k] = 1

\* out[..., y:y+h, x:x+w] = src, for a region inside out (y, x >= 0, h, w > 0).
AssignRegion(out, y, x, h, w, src) ==
    LET n == Len(out.shape)
        region == [out.shape EXCEPT ![n - 1] = h, ![n] = w]
    IN  IF ~Broadcastable(src.shape, region)
        THEN Raise("ValueError", "SnappedGeometry.position_modules")
        ELSE Return(
            [shape |-> out.shape,
             val |-> [idx \in Indices(out.shape) |->
                IF /\ idx[n - 1] >= y /\ idx[n - 1] < y + h
                   /\ idx[n] >= x /\ idx[n] < x + w
                THEN src.val[[k \in 1..n |->
                        IF src.shape[k] = 1 THEN 0
                        ELSE IF k = n - 1 THEN idx[k] - y
                        ELSE IF k = n THEN idx[k] - x
                        ELSE idx[k]]]
                ELSE out.val[idx]],
             dtype |-> out.dtype])

(***************************************************************************)
(* Detector classes.  The model's detector has the 16 modules of the code, *)
(* of TilesPerModule tiles of FragSS x FragFS pixels, laid out in the raw  *)
(* data as AGIPD-1M lays out its modules of 8 tiles of 64 x 128.           *)
(***************************************************************************)
\* frag_ss_pixels of AGIPD_1MGeometry (64) and of LPD_1MGeometry (32).
frag_ss_pixels(cls) == FragSS
\* frag_fs_pixels of AGIPD_1MGeometry (128) and of LPD_1MGeometry (128).
frag_fs_pixels(cls) == FragFS
\* expected_data_shape.  AGIPD_1MGeometry: (16, 512, 128), a module being
\* 8 tiles along ss.  LPD_1MGeometry: (16, 256, 256), a module being two
\* columns of 8 tiles.
expected_data_shape(cls) ==
    IF cls = "LPD_1MGeometry"
    THEN <<NumModules, TilesPerModule * FragSS, 2 * FragFS>>
    ELSE <<NumModules, TilesPerModule * FragSS, FragFS>>

\* split_tiles handing the blocks over in reverse order.
split_tiles_reversed(cls, module_data) ==
    [k \in 1..TilesPerModule |->
        SplitRows(module_data, TilesPerModule, TilesPerModule - k)]

\* AGIPD_1MGeometry.split_tiles: np.split(module_data, 8, axis=-2)
AGIPD_1MGeometry_split_tiles(module_data) ==
    [k \in 1..TilesPerModule |-> SplitRows(module_data, TilesPerModule, k - 1)]

\* LPD_1MGeometry.split_tiles with the left-hand tiles in the array's order.
LPD_1MGeometry_split_tiles_unreversed(module_data) ==
    LET lhs == SplitCols(module_data, 2, 0)
        rhs == SplitCols(module_data, 2, 1)
    IN  [k \in 1..(2 * TilesPerModule) |->
            IF k <= TilesPerModule
            THEN SplitRows(lhs, TilesPerModule, k - 1)
            ELSE SplitRows(rhs, TilesPerModule, k - TilesPerModule - 1)]

\* LPD_1MGeometry.split_tiles:
\*   lhs, rhs = np.split(module_data, 2, axis=-1)
\*   np.split(lhs, 8, axis=-2)[::-1] + np.split(rhs, 8, axis=-2)
LPD_1MGeometry_split_tiles(module_data) ==
    LET lhs == SplitCols(module_data, 2, 0)
        rhs == SplitCols(module_data, 2, 1)
    IN  [k \in 1..(2 * TilesPerModule) |->
            IF k <= TilesPerModule
            THEN SplitRows(lhs, TilesPerModule, TilesPerModule - k)
            ELSE SplitRows(rhs, TilesPerModule, k - TilesPerModule - 1)]

\* self.geom.split_tiles(mod_data): the static method of the geometry's class.
split_tiles(cls, module_data) ==
    IF cls = "LPD_1MGeometry"
    THEN LPD_1MGeometry_split_tiles(module_data)
    ELSE AGIPD_1MGeometry_split_tiles(module_data)

\* DetectorGeometryBase.__init__ (self._snapped_cache is the variable
\* snapped_cache; filename is metadata for plots and is left out).
DetectorGeometry(cls, modules) == [cls |-> cls, modules |-> modules]

\* Modules per quadrant: the 4 of `p // 4` and `p % 4`.
ModulesPerQuad == 4

\* quads_x_orientation and quads_y_orientation of AGIPD's from_quad_positions
quads_x_orientation == <<1, 1, -1, -1>>
quads_y_orientation == <<-1, -1, 1, 1>>

\* AGIPD's from_quad_positions stepping from tile to tile by the tile's
\* extent only, without asic_gap.
AGIPD_1MGeometry_from_quad_positions_no_gap(quad_pos, asic_gap, panel_gap) ==
    DetectorGeometry("AGIPD_1MGeometry",
        [p \in 1..NumModules |->
            LET quad == (p - 1) \div ModulesPerQuad
                quad_corner == quad_pos[quad + 1]
                x_orient == quads_x_orientation[quad + 1]
                y_orient == quads_y_orientation[quad + 1]
                p_in_quad == (p - 1) % ModulesPerQuad
                corner_y == quad_corner[2] - Scale * (p_in_quad * (FragFS + panel_gap))
            IN  [a \in 1..TilesPerModule |->
                    GeometryFragment(
                        <<quad_corner[1] + Scale * (x_orient * FragSS * (a - 1)),
                          corner_y, 0>>,
                        <<Scale * x_orient, 0, 0>>, <<0, Scale * y_orient, 0>>,
                        frag_ss_pixels("AGIPD_1MGeometry"),
                        frag_fs_pixels("AGIPD_1MGeometry"))]])

\* AGIPD_1MGeometry.from_quad_positions(quad_pos, asic_gap, panel_gap);
\* quad_pos in fixed point, the gaps in pixels.  The code's 64 and 128 are
\* the tile's extents, its range(16) and range(8) the modules and tiles.
AGIPD_1MGeometry_from_quad_positions(quad_pos, asic_gap, panel_gap) ==
    DetectorGeometry("AGIPD_1MGeometry",
        [p \in 1..NumModules |->
            LET quad == (p - 1) \div ModulesPerQuad
                quad_corner == quad_pos[quad + 1]
                x_orient == quads_x_orientation[quad + 1]
                y_orient == quads_y_orientation[quad + 1]
                p_in_quad == (p - 1) % ModulesPerQuad
                corner_y == quad_corner[2] - Scale * (p_in_quad * (FragFS + panel_gap))
            IN  [a \in 1..TilesPerModule |->
                    GeometryFragment(
                        <<quad_corner[1] + Scale * (x_orient * (FragSS + asic_gap) * (a - 1)),
                          corner_y, 0>>,
                        <<Scale * x_orient, 0, 0>>, <<0, Scale * y_orient, 0>>,
                        frag_ss_pixels("AGIPD_1MGeometry"),
                        frag_fs_pixels("AGIPD_1MGeometry"))]])

\* panels_across and panels_up of LPD's from_quad_positions
panels_across == <<0, 0, 1, 1>>
panels_up == <<0, -1, -1, 0>>

\* LPD_1MGeometry.from_quad_positions(quad_pos, asic_gap, panel_gap).  The
\* code's 256 is two tiles along fs across and 8 tiles along ss up, its
\* 16 tiles are two columns of 8, `a < 8` the left-hand column.
LPD_1MGeometry_from_quad_positions(quad_pos, asic_gap, panel_gap) ==
    DetectorGeometry("LPD_1MGeometry",
        [p \in 1..NumModules |->
            LET quad == (p - 1) \div ModulesPerQuad
                quad_corner_x == quad_pos[quad + 1][1]
                quad_corner_y == quad_pos[quad + 1][2]
                p_in_quad == (p - 1) % ModulesPerQuad
                panel_corner_x ==
                    quad_corner_x + Scale * (panels_across[p_in_quad + 1]
                                        * (2 * FragFS + asic_gap + panel_gap))
                panel_corner_y ==
                    quad_corner_y + Scale * (panels_up[p_in_quad + 1]
                                        * (TilesPerModule * FragSS
                                           + (TilesPerModule - 1) * asic_gap + panel_gap))
            IN  [a1 \in 1..(2 * TilesPerModule) |->
                    LET a == a1 - 1
                        up == IF a < TilesPerModule THEN -a
                              ELSE -((2 * TilesPerModule - 1) - a)
                        across == IF a < TilesPerModule THEN 0 ELSE 1
                        corner_x == panel_corner_x
                                    + Scale * ((frag_fs_pixels("LPD_1MGeometry") + asic_gap)
                                               * across)
                        corner_y == panel_corner_y
                                    - Scale * frag_ss_pixels("LPD_1MGeometry")
                                    + Scale * ((frag_ss_pixels("LPD_1MGeometry") + asic_gap)
                                               * up)
                    IN  GeometryFragment(<<corner_x, corner_y, 0>>,
                                         <<0, Scale, 0>>, <<Scale, 0, 0>>,
                                         frag_ss_pixels("LPD_1MGeometry"),
                                         frag_fs_pixels("LPD_1MGeometry"))]])

\* cls.from_quad_positions(quad_pos, asic_gap, panel_gap)
from_quad_positions(cls, quad_pos, asic_gap, panel_gap) ==
    IF cls = "LPD_1MGeometry"
    THEN LPD_1MGeometry_from_quad_positions(quad_pos, asic_gap, panel_gap)
    ELSE AGIPD_1MGeometry_from_quad_positions(quad_pos, asic_gap, panel_gap)

\* All (module, tile) positions of a list of modules, 1-based.
TilesOf(modules) ==
    UNION {{<<i, j>> : j \in 1..Len(modules[i])} : i \in 1..Len(modules)}

(***************************************************************************)
(* SnappedGeometry.                                                        *)
(***************************************************************************)
\* SnappedGeometry.__init__; id is the identity of the new object.
SnappedGeometry(id, modules, g) == [id |-> id, modules |-> modules, geom |-> g]

\* The body of the `if` of DetectorGeometryBase._snapped up to the store:
\* new_modules, or the exception of the first tile whose snap() raises.
SnapModules(modules) ==
    IF \E p \in TilesOf(modules) : Raised(snap(modules[p[1]][p[2]]))
    THEN Raise("AssertionError", "GeometryFragment.snap")
    ELSE Return([i \in 1..Len(modules) |->
                    [j \in 1..Len(modules[i]) |-> snap(modules[i][j]).value]])

MinOf(S) == CHOOSE m \in S : \A x \in S : m <= x
MaxOf(S) == CHOOSE m \in S : \A x \in S : m >= x

\* SnappedGeometry._get_dimensions collecting only each tile's corner_idx.
SnappedGetDimensionsNoOpp(self) ==
    LET tiles == {self.modules[p[1]][p[2]] : p \in TilesOf(self.modules)}
        corners == {t.corner_idx : t \in tiles}
        min_yx == <<MinOf({c[1] : c \in corners}), MinOf({c[2] : c \in corners})>>
        max_yx == <<MaxOf({c[1] : c \in corners}), MaxOf({c[2] : c \in corners})>>
    IN  IF tiles = {}
        THEN Raise("ValueError", "SnappedGeometry._get_dimensions")
        ELSE Return([size |-> <<max_yx[1] - min_yx[1], max_yx[2] - min_yx[2]>>,
                     centre |-> <<-min_yx[1], -min_yx[2]>>])

\* SnappedGeometry._get_dimensions: ((size_y, size_x), (centre_y, centre_x)).
\* np.stack of an empty list raises ValueError.
SnappedGetDimensions(self) ==
    LET tiles == {self.modules[p[1]][p[2]] : p \in TilesOf(self.modules)}
        corners == {t.corner_idx : t \in tiles} \cup {t.opp_corner_idx : t \in tiles}
        min_yx == <<MinOf({c[1] : c \in corners}), MinOf({c[2] : c \in corners})>>
        max_yx == <<MaxOf({c[1] : c \in corners}), MaxOf({c[2] : c \in corners})>>
    IN  IF tiles = {}
        THEN Raise("ValueError", "SnappedGeometry._get_dimensions")
        ELSE Return([size |-> <<max_yx[1] - min_yx[1], max_yx[2] - min_yx[2]>>,
                     centre |-> <<-min_yx[1], -min_yx[2]>>])

RECURSIVE PlaceTiles(_, _, _, _, _)
\* The inner loop of SnappedGeometry.position_modules from tile j on.
PlaceTiles(module, tiles_data, centre, out, j) ==
    IF j > Len(module) THEN Return(out)
    ELSE IF j > Len(tiles_data)
    THEN Raise("IndexError", "SnappedGeometry.position_modules")
    ELSE LET tile == module[j]
             r == AssignRegion(out,
                               tile.corner_idx[1] + centre[1],
                               tile.corner_idx[2] + centre[2],
                               tile.pixel_dims[1], tile.pixel_dims[2],
                               Transform(tile.transform, tiles_data[j]))
         IN  IF Raised(r) THEN r
             ELSE PlaceTiles(module, tiles_data, centre, r.value, j + 1)

RECURSIVE PlaceModules(_, _, _, _, _)
\* The outer loop of SnappedGeometry.position_modules from module i on.
PlaceModules(self, data, centre, out, i) ==
    IF i > Len(self.modules) THEN Return(out)
    ELSE IF i > data.shape[Len(data.shape) - 2]
    THEN Raise("IndexError", "SnappedGeometry.position_modules")
    ELSE LET mod_data == TakeModule(data, i - 1)
             tiles_data == split_tiles(self.geom.cls, mod_data)
             r == PlaceTiles(self.modules[i], tiles_data, centre, out, 1)
         IN  IF Raised(r) THEN r
             ELSE PlaceModules(self, data, centre, r.value, i + 1)

\* position_modules asserting data.shape == expected_data_shape, as
\* position_modules_interpolate does: no leading dimensions.
position_modules_exact_shape(self, data, nan_as_int) ==
    IF data.shape # expected_data_shape(self.geom.cls)
    THEN Raise("AssertionError", "SnappedGeometry.position_modules")
    ELSE LET dims == SnappedGetDimensions(self)
         IN  IF Raised(dims) THEN dims
             ELSE LET out == Full(LeadDims(data.shape, 3) \o dims.value.size, NaN,
                                  data.dtype, nan_as_int)
                      r == PlaceModules(self, data, dims.value.centre, out.value, 1)
                  IN  IF Raised(out) THEN out
                      ELSE IF Raised(r) THEN r
                      ELSE Return([out |-> r.value, centre |-> dims.value.centre])

\* SnappedGeometry.position_modules, in a build that treats NaN for an
\* integer dtype as nan_as_int says: the shape assertion, _get_dimensions,
\* np.full(..., np.nan, dtype=data.dtype), then the loops.
position_modules(self, data, nan_as_int) ==
    IF LastDims(data.shape, 3) # expected_data_shape(self.geom.cls)
    THEN Raise("AssertionError", "SnappedGeometry.position_modules")
    ELSE LET dims == SnappedGetDimensions(self)
         IN  IF Raised(dims) THEN dims
             ELSE LET out == Full(LeadDims(data.shape, 3) \o dims.value.size, NaN,
                                  data.dtype, nan_as_int)
                      r == PlaceModules(self, data, dims.value.centre, out.value, 1)
                  IN  IF Raised(out) THEN out
                      ELSE IF Raised(r) THEN r
                      ELSE Return([out |-> r.value, centre |-> dims.value.centre])

(***************************************************************************)
(* The paths of AGIPD_1MGeometry that use the unsnapped fragments.         *)
(***************************************************************************)
\* GeometryFragment.corners, in winding order; fixed point (x, y, z).
corners(self) ==
    LET at(a, b) == [k \in 1..3 |-> self.corner_pos[k]
                                    + a * self.ss_vec[k] * self.ss_pixels
                                    + b * self.fs_vec[k] * self.fs_pixels]
    IN  <<at(0, 0), at(0, 1), at(1, 1), at(1, 0)>>

\* AGIPD_1MGeometry._get_dimensions: the extremes of all tiles' corners,
\* truncated to int, with a margin of 1 px; returned as (y, x).
\* np.concatenate of an empty list raises ValueError.
GetDimensions(self) ==
    LET pts == UNION {{corners(self.modules[p[1]][p[2]])[k] : k \in 1..4} :
                        p \in TilesOf(self.modules)}
        min_xy == <<Trunc(MinOf({c[1] : c \in pts})) - 1,
                    Trunc(MinOf({c[2] : c \in pts})) - 1>>
        max_xy == <<Trunc(MaxOf({c[1] : c \in pts})) + 1,
                    Trunc(MaxOf({c[2] : c \in pts})) + 1>>
    IN  IF pts = {}
        THEN Raise("ValueError", "AGIPD_1MGeometry._get_dimensions")
        ELSE Return([size |-> <<max_xy[2] - min_xy[2], max_xy[1] - min_xy[1]>>,
                     centre |-> <<-min_xy[2], -min_xy[1]>>])

\* np.linalg.inv(rotn) raises LinAlgError: rotn, whose columns are the
\* tile's ss_vec and fs_vec as (y, x), has no inverse.
Singular(tile) ==
    tile.ss_vec[2] * tile.fs_vec[1] - tile.fs_vec[2] * tile.ss_vec[1] = 0

\* position_modules_interpolate taking the canvas from the snapped layout,
\* so that it snaps every tile first.
position_modules_interpolate_snapping(self, data) ==
    IF data.shape # expected_data_shape(self.cls)
    THEN Raise("AssertionError", "AGIPD_1MGeometry.position_modules_interpolate")
    ELSE LET new_modules == SnapModules(self.modules)
             dims == GetDimensions(self)
         IN  IF Raised(new_modules) THEN new_modules
             ELSE IF Raised(dims) THEN dims
             ELSE Return([shape |-> dims.value.size, centre |-> dims.value.centre])

\* position_modules_interpolate asserting data.shape[-3:] only, as
\* position_modules does: any leading dimensions.
position_modules_interpolate_batched(self, data) ==
    IF LastDims(data.shape, 3) # expected_data_shape(self.cls)
    THEN Raise("AssertionError", "AGIPD_1MGeometry.position_modules_interpolate")
    ELSE LET dims == GetDimensions(self)
             used == {p \in TilesOf(self.modules) :
                        p[1] <= NumModules /\ p[2] <= TilesPerModule}
         IN  IF Raised(dims) THEN dims
             ELSE IF \E p \in used : Singular(self.modules[p[1]][p[2]])
             THEN Raise("LinAlgError", "AGIPD_1MGeometry.position_modules_interpolate")
             ELSE Return([shape |-> dims.value.size, centre |-> dims.value.centre])

\* AGIPD_1MGeometry.position_modules_interpolate.  The resampled pixel
\* values (scipy's affine_transform) are not modelled: the value returned
\* here is the shape of `out` and `centre`.  zip() stops at the shorter of
\* the modules and the data, and of a module's tiles and its 8 blocks.
position_modules_interpolate(self, data) ==
    IF data.shape # expected_data_shape(self.cls)
    THEN Raise("AssertionError", "AGIPD_1MGeometry.position_modules_interpolate")
    ELSE LET dims == GetDimensions(self)
             used == {p \in TilesOf(self.modules) :
                        p[1] <= NumModules /\ p[2] <= TilesPerModule}
         IN  IF Raised(dims) THEN dims
             ELSE IF \E p \in used : Singular(self.modules[p[1]][p[2]])
             THEN Raise("LinAlgError", "AGIPD_1MGeometry.position_modules_interpolate")
             ELSE Return([shape |-> dims.value.size, centre |-> dims.value.centre])

\* corner_ss_offsets and corner_fs_offsets of to_distortion_array, doubled.
corner_ss_offsets == <<-1, 1, 1, -1>>
\* corner_fs_offsets with the order of corner_ss_offsets.
corner_fs_offsets_as_ss == <<-1, 1, 1, -1>>
corner_fs_offsets == <<-1, -1, 1, 1>>

\* Rows of the distortion array: 8192 = 16 * 512.
DistortionRows == NumModules * TilesPerModule * FragSS

\* The rows tile t of module m (0-based) is written to:
\* slice(tile_offset, tile_offset + tile.ss_pixels), both ends cut at the
\* array's end; the rows are start..(stop - 1).
TileSlice(m, t, tile) ==
    LET tile_offset == m * (TilesPerModule * FragSS) + t * FragSS
    IN  [start |-> Min(tile_offset, DistortionRows),
         stop |-> Min(tile_offset + tile.ss_pixels, DistortionRows)]

\* Coordinate c (1: x, 2: y, 3: z) of corner k of pixel (s, f) of a tile,
\* in units of pixel_size / (2 * Scale).
PixelCorner(tile, s, f, k, c) ==
    2 * tile.corner_pos[c]
        + (2 * s + corner_ss_offsets[k]) * tile.ss_vec[c]
        + (2 * f + corner_fs_offsets[k]) * tile.fs_vec[c]

RECURSIVE AssignRows(_, _, _, _)
\* owner[start:stop] = p: the rows start..(stop - 1) of the array now hold
\* what tile p wrote (rows counted from 0, owner indexed from 1).
AssignRows(owner, start, stop, p) ==
    IF start >= stop THEN owner
    ELSE AssignRows([owner EXCEPT ![start + 1] = p], start + 1, stop, p)

RECURSIVE RowOwners(_, _, _, _)
\* The loops of to_distortion_array over the modules and their tiles, from
\* tile j of module i on: for every row of the array the tile <<i, j>>
\* that assigned to it last, <<0, 0>> for a row no tile assigned to.
RowOwners(self, owner, i, j) ==
    IF i > Len(self.modules) THEN owner
    ELSE IF j > Len(self.modules[i]) THEN RowOwners(self, owner, i + 1, 1)
    ELSE LET tile_slice == TileSlice(i - 1, j - 1, self.modules[i][j])
         IN  RowOwners(self, AssignRows(owner, tile_slice.start, tile_slice.stop,
                                        <<i, j>>), i, j + 1)

\* AGIPD_1MGeometry.to_distortion_array.  Index (row, fs, corner, coord)
\* with coord 0, 1, 2 for z, y, x.  A tile's block of FragSS rows is
\* assigned to its slice: numpy raises ValueError when the slice has
\* another length.  Rows no tile wrote stay 0; a row written twice keeps
\* the later tile's values.
to_distortion_array(self) ==
    LET tiles == TilesOf(self.modules)
        slice(p) == TileSlice(p[1] - 1, p[2] - 1, self.modules[p[1]][p[2]])
        shape == <<DistortionRows, FragFS, 4, 3>>
        owner == RowOwners(self, [r \in 1..DistortionRows |-> <<0, 0>>], 1, 1)
        row(r, f, k, c) ==
            LET p == owner[r + 1]
            IN  IF p = <<0, 0>> THEN 0
                ELSE PixelCorner(self.modules[p[1]][p[2]],
                                 IF FragSS = 1 THEN 0 ELSE r - slice(p).start,
                                 f, k, c)
        column(c) == {row(r, f, k, c) : r \in 0..(DistortionRows - 1),
                                        f \in 0..(FragFS - 1), k \in 1..4}
        min_y == MinOf(column(2))
        min_x == MinOf(column(1))
    IN  IF \E p \in tiles :
              ~Broadcastable(<<FragSS, FragFS, 4>>,
                             <<Max(slice(p).stop - slice(p).start, 0), FragFS, 4>>)
        THEN Raise("ValueError", "AGIPD_1MGeometry.to_distortion_array")
        ELSE Return([shape |-> shape,
                     val |-> [idx \in Indices(shape) |->
                                LET v == row(idx[1], idx[2], idx[3] + 1, 3 - idx[4])
                                IN  IF idx[4] = 0 THEN v
                                    ELSE IF idx[4] = 1 THEN v - min_y
                                    ELSE v - min_x],
                     dtype |-> "float32"])

(***************************************************************************)
(* The geometry object shared by threads: calls and their steps.           *)
(* A thread is idle or inside a call.  position_modules_fast and _snapped  *)
(* read and write self._snapped_cache in separate steps, between which     *)
(* other threads may run; the paths that only read self.modules are one    *)
(* step each.  After a call the thread keeps what it passed and got back.  *)
(***************************************************************************)
NoData == Full(<<0>>, NaN, "float64", "ValueError").value

Idle == [pc |-> "idle", op |-> "none", data |-> NoData, new_modules |-> <<>>,
         fresh |-> FALSE, snapped |-> None, ret |-> NoResult]

Threads == DOMAIN th

\* A caller enters position_modules_fast(data), which enters self._snapped().
position_modules_fast(t, data) ==
    /\ th[t].pc = "idle" /\ calls_left > 0
    /\ calls_left' = calls_left - 1
    /\ th' = [th EXCEPT ![t] = [Idle EXCEPT !.pc = "if_cache_is_none",
                                            !.op = "position_modules_fast",
                                            !.data = data]]
    /\ UNCHANGED <<frag, snap_ret, geom, snapped_cache, nobj, feed, quad_args, nan_to_int>>

\* A caller enters self._snapped() directly.
snapped_call(t) ==
    /\ th[t].pc = "idle" /\ calls_left > 0
    /\ calls_left' = calls_left - 1
    /\ th' = [th EXCEPT ![t] = [Idle EXCEPT !.pc = "if_cache_is_none",
                                            !.op = "_snapped"]]
    /\ UNCHANGED <<frag, snap_ret, geom, snapped_cache, nobj, feed, quad_args, nan_to_int>>

\* _snapped: `if self._snapped_cache is None:`
snapped_test(t) ==
    /\ th[t].pc = "if_cache_is_none"
    /\ th' = [th EXCEPT ![t].pc =
                IF snapped_cache = None THEN "snap_modules" ELSE "return_cache"]
    /\ UNCHANGED <<frag, snap_ret, geom, snapped_cache, nobj, calls_left, feed, quad_args, nan_to_int>>

\* The loops of _snapped storing the tiles snapped so far when snap()
\* raises.
snapped_snap_storing_partial(t) ==
    /\ th[t].pc = "snap_modules"
    /\ LET r == SnapModules(geom.modules)
       IN  /\ th' = [th EXCEPT ![t] =
                    IF Raised(r)
                    THEN [@ EXCEPT !.pc = "idle", !.ret = r]
                    ELSE [@ EXCEPT !.pc = "store_cache", !.new_modules = r.value,
                                   !.fresh = TRUE]]
           /\ snapped_cache' = IF Raised(r) THEN SnappedGeometry(nobj + 1, <<>>, geom)
                               ELSE snapped_cache
           /\ nobj' = IF Raised(r) THEN nobj + 1 ELSE nobj
    /\ UNCHANGED <<frag, snap_ret, geom, calls_left, feed, quad_args, nan_to_int>>

\* _snapped: the loops that build new_modules; an exception of snap()
\* leaves _snapped and position_modules_fast.
snapped_snap(t) ==
    /\ th[t].pc = "snap_modules"
    /\ LET r == SnapModules(geom.modules)
       IN  th' = [th EXCEPT ![t] =
                    IF Raised(r)
                    THEN [@ EXCEPT !.pc = "idle", !.ret = r]
                    ELSE [@ EXCEPT !.pc = "store_cache", !.new_modules = r.value,
                                   !.fresh = TRUE]]
    /\ UNCHANGED <<frag, snap_ret, geom, snapped_cache, nobj, calls_left, feed, quad_args, nan_to_int>>

\* _snapped: `self._snapped_cache = SnappedGeometry(new_modules, self)`
snapped_store(t) ==
    /\ th[t].pc = "store_cache"
    /\ nobj' = nobj + 1
    /\ snapped_cache' = SnappedGeometry(nobj + 1, th[t].new_modules, geom)
    /\ th' = [th EXCEPT ![t].pc = "return_cache"]
    /\ UNCHANGED <<frag, snap_ret, geom, calls_left, feed, quad_args, nan_to_int>>

\* _snapped: `return self._snapped_cache`
snapped_return(t) ==
    /\ th[t].pc = "return_cache"
    /\ th' = [th EXCEPT ![t] =
                IF th[t].op = "_snapped"
                THEN [@ EXCEPT !.pc = "idle", !.snapped = snapped_cache,
                               !.ret = Return(snapped_cache)]
                ELSE [@ EXCEPT !.pc = "position_modules", !.snapped = snapped_cache]]
    /\ UNCHANGED <<frag, snap_ret, geom, snapped_cache, nobj, calls_left, feed, quad_args, nan_to_int>>

\* What the caller of a finished call sees.
Finished(t, op) == th[t].pc = "idle" /\ th[t].op = op

\* position_modules reaches np.full with data of an integer dtype.
StoresNanAsInt(self, data) ==
    /\ IsInteger(data.dtype)
    /\ LastDims(data.shape, 3) = expected_data_shape(self.geom.cls)
    /\ Returned(SnappedGetDimensions(self))

\* position_modules adding the centre to every tile's corner_idx in place
\* (`tile.corner_idx += centre`): the layout object the call was given,
\* when it is the one in the cache, keeps the moved corners.
position_modules_step_moving_corners(t) ==
    /\ th[t].pc = "position_modules"
    /\ LET stores == StoresNanAsInt(th[t].snapped, th[t].data)
       IN  \E b \in (IF stores /\ nan_to_int = "unknown" THEN NanToInt
                     ELSE IF stores THEN {nan_to_int} ELSE {"ValueError"}) :
            LET r == position_modules(th[t].snapped, th[t].data, b)
                ms == th[t].snapped.modules
                moved == [i \in 1..Len(ms) |-> [j \in 1..Len(ms[i]) |->
                            [ms[i][j] EXCEPT !.corner_idx =
                                <<ms[i][j].corner_idx[1] + r.value.centre[1],
                                  ms[i][j].corner_idx[2] + r.value.centre[2]>>]]]
            IN  /\ nan_to_int' = IF stores THEN b ELSE nan_to_int
                /\ th' = [th EXCEPT ![t] = [@ EXCEPT !.pc = "idle", !.ret = r]]
                /\ snapped_cache' =
                        IF Returned(r) /\ snapped_cache.id = th[t].snapped.id
                        THEN [snapped_cache EXCEPT !.modules = moved]
                        ELSE snapped_cache
    /\ UNCHANGED <<frag, snap_ret, geom, nobj, calls_left, feed, quad_args>>

\* position_modules_fast: `.position_modules(data)` on the returned object.
\* The first call that stores np.nan in an integer array shows what the
\* build does with it; later calls meet the same.
position_modules_step(t) ==
    /\ th[t].pc = "position_modules"
    /\ LET stores == StoresNanAsInt(th[t].snapped, th[t].data)
       IN  \E b \in (IF stores /\ nan_to_int = "unknown" THEN NanToInt
                     ELSE IF stores THEN {nan_to_int} ELSE {"ValueError"}) :
            /\ nan_to_int' = IF stores THEN b ELSE nan_to_int
            /\ th' = [th EXCEPT ![t] = [@ EXCEPT !.pc = "idle",
                                                 !.ret = position_modules(th[t].snapped,
                                                                          th[t].data, b)]]
    /\ UNCHANGED <<frag, snap_ret, geom, snapped_cache, nobj, calls_left, feed, quad_args>>

\* A caller runs position_modules_interpolate(data).
interpolate_call(t, data) ==
    /\ th[t].pc = "idle" /\ calls_left > 0
    /\ calls_left' = calls_left - 1
    /\ th' = [th EXCEPT ![t] = [Idle EXCEPT !.op = "position_modules_interpolate",
                                            !.data = data,
                                            !.ret = position_modules_interpolate(geom, data)]]
    /\ UNCHANGED <<frag, snap_ret, geom, snapped_cache, nobj, feed, quad_args, nan_to_int>>

\* A caller runs to_distortion_array().
distortion_call(t) ==
    /\ th[t].pc = "idle" /\ calls_left > 0
    /\ calls_left' = calls_left - 1
    /\ th' = [th EXCEPT ![t] = [Idle EXCEPT !.op = "to_distortion_array",
                                            !.ret = to_distortion_array(geom)]]
    /\ UNCHANGED <<frag, snap_ret, geom, snapped_cache, nobj, feed, quad_args, nan_to_int>>

Next ==
    \/ \E t \in Threads, data \in feed : position_modules_fast(t, data)
    \/ \E t \in Threads : snapped_call(t)
    \/ \E t \in Threads : snapped_test(t)
    \/ \E t \in Threads : snapped_snap(t)
    \/ \E t \in Threads : snapped_store(t)
    \/ \E t \in Threads : snapped_return(t)
    \/ \E t \in Threads : position_modules_step(t)
    \/ \E t \in Threads, data \in feed : interpolate_call(t, data)
    \/ \E t \in Threads : distortion_call(t)

\* A caller runs cls.from_quad_positions(quad_pos, asic_gap, panel_gap).
from_quad_positions_call ==
    /\ quad_args.cls # "none" /\ geom.modules = <<>>
    /\ geom' = from_quad_positions(quad_args.cls, quad_args.quad_pos,
                                   quad_args.asic_gap, quad_args.panel_gap)
    /\ UNCHANGED <<frag, snap_ret, snapped_cache, nobj, th, calls_left, feed, quad_args, nan_to_int>>

\* The layout generator, and fast assembly on the geometry it returned.
NextQuad ==
    \/ from_quad_positions_call
    \/ geom.modules # <<>> /\ \E t \in Threads, data \in feed : position_modules_fast(t, data)
    \/ \E t \in Threads : snapped_test(t)
    \/ \E t \in Threads : snapped_snap(t)
    \/ \E t \in Threads : snapped_store(t)
    \/ \E t \in Threads : snapped_return(t)
    \/ \E t \in Threads : position_modules_step(t)

(***************************************************************************)
(* Inputs: data arrays.                                                    *)
(***************************************************************************)
RECURSIVE Flat(_, _)
\* Row-major position of index tuple idx in an array of shape sh.
Flat(idx, sh) ==
    IF Len(sh) = 0 THEN 0
    ELSE idx[Len(sh)] + sh[Len(sh)] * Flat(SubSeq(idx, 1, Len(sh) - 1),
                                           SubSeq(sh, 1, Len(sh) - 1))

\* np.arange(size).reshape(shape): every pixel holds a different value;
\* the dtype is numpy's default integer.
Arange(shape) ==
    [shape |-> shape, val |-> [idx \in Indices(shape) |-> Flat(idx, shape)],
     dtype |-> "int64"]

\* arr.astype(float)
AsFloat(arr) == [arr EXCEPT !.dtype = "float64"]

\* Every pixel holds the index of its module.
ModuleFilled(shape) ==
    [shape |-> shape, val |-> [idx \in Indices(shape) |-> idx[Len(shape) - 2]],
     dtype |-> "float64"]

RawShape == expected_data_shape("AGIPD_1MGeometry")

\* Arrays of the detector's shape, without and with leading dimensions,
\* of floating-point and of integer dtype.
GoodData ==
    {AsFloat(Arange(RawShape)), ModuleFilled(RawShape),
     AsFloat(Arange(<<2>> \o RawShape)), AsFloat(Arange(<<1, 2>> \o RawShape)),
     Arange(RawShape)}

\* Arrays whose last three dimensions are not the detector's shape.
BadData ==
    {Arange([RawShape EXCEPT ![3] = @ + 1]),
     Arange([RawShape EXCEPT ![1] = @ + 1]),
     Arange(<<2>> \o [RawShape EXCEPT ![2] = @ - 1]),
     Arange(<<RawShape[2], RawShape[3]>>)}

(***************************************************************************)
(* Inputs: fragments and geometries.                                       *)
(***************************************************************************)
\* The unit directions along x and y, and the eight pairs (ss_vec, fs_vec)
\* of perpendicular unit directions.
AxisDirs == {<<Scale, 0, 0>>, <<-Scale, 0, 0>>, <<0, Scale, 0>>, <<0, -Scale, 0>>}
Orientations ==
    {o \in [ss : AxisDirs, fs : AxisDirs] : (o.ss[1] = 0) # (o.fs[1] = 0)}

\* The tile at place j of module i (0-based) of a regular grid of tiles of
\* orientation o, gap pixels apart: modules stacked along y, tiles along x.
GridTile(o, gap, i, j) ==
    LET along_x == IF o.ss[1] # 0 THEN o.ss ELSE o.fs
        along_y == IF o.ss[1] # 0 THEN o.fs ELSE o.ss
        wx == IF o.ss[1] # 0 THEN FragSS ELSE FragFS
        hy == IF o.ss[1] # 0 THEN FragFS ELSE FragSS
        x0 == j * (wx + gap) - 1
        y0 == i * (hy + gap) - 2
    IN  GeometryFragment(
            <<Scale * (IF along_x[1] < 0 THEN x0 + wx ELSE x0),
              Scale * (IF along_y[2] < 0 THEN y0 + hy ELSE y0), 0>>,
            o.ss, o.fs, FragSS, FragFS)

GridModules(o, gap) ==
    [i \in 1..GridRows |-> [j \in 1..TilesPerModule |-> GridTile(o, gap, i - 1, j - 1)]]

\* A direction a little off the axis direction v: 0.9 along it and 0.2
\* along the other in-plane axis (for Scale = 10).
Tilted(v) ==
    IF v[1] # 0 THEN <<(v[1] \div Scale) * (Scale - 1), Scale \div 5, 0>>
    ELSE <<Scale \div 5, (v[2] \div Scale) * (Scale - 1), 0>>

\* Fragments in place of f: moved, a little rotated, not axis-aligned,
\* of another size, turned by a quarter.
TileVariants(f) ==
    {[f EXCEPT !.corner_pos[1] = @ + Scale \div 2],
     [f EXCEPT !.corner_pos[1] = @ - Scale],
     [f EXCEPT !.corner_pos[2] = @ + Scale + Scale \div 2 + 1],
     [f EXCEPT !.ss_vec = Tilted(@)],
     [f EXCEPT !.fs_vec = Tilted(@)],
     [f EXCEPT !.ss_vec = f.fs_vec],
     [f EXCEPT !.ss_vec = <<Scale \div 2 + 1, Scale \div 2 + 1, 0>>],
     [f EXCEPT !.fs_vec = <<0, 0, Scale>>],
     [f EXCEPT !.ss_pixels = @ + 1],
     [f EXCEPT !.fs_pixels = @ - 1],
     [f EXCEPT !.ss_vec = f.fs_vec, !.fs_vec = f.ss_vec]}

\* Lists of modules in place of ms: a tile or a module more or less, and
\* one module more than the detector has.
ListVariants(ms) ==
    LET n == Len(ms)
        last == ms[n][Len(ms[n])]
        far == [last EXCEPT !.corner_pos[1] = @ + Scale * (FragSS + FragFS)]
    IN  {[ms EXCEPT ![n] = Append(@, far)],
         [ms EXCEPT ![1] = SubSeq(@, 1, Len(@) - 1)],
         Append(ms, <<far>>),
         SubSeq(ms, 1, n - 1),
         [i \in 1..(NumModules + 1) |-> IF i <= n THEN ms[i] ELSE <<far>>]}

\* The places whose tile is varied: the first and the last.
VariedPlaces == {<<1, 1>>, <<GridRows, TilesPerModule>>}

ModulesFrom(ms) ==
    {ms} \cup ListVariants(ms)
         \cup UNION {{[ms EXCEPT ![p[1]][p[2]] = v] : v \in TileVariants(ms[p[1]][p[2]])} :
                        p \in VariedPlaces}

\* Geometries for the calls of one caller.
Geometries ==
    {DetectorGeometry("AGIPD_1MGeometry", ms) :
        ms \in UNION {ModulesFrom(GridModules(o, gap)) : o \in Orientations, gap \in 0..1}}

\* Geometries for callers in several threads: a grid, and the grid with
\* one tile not axis-aligned.
SharedGeometries ==
    LET o == [ss |-> <<Scale, 0, 0>>, fs |-> <<0, -Scale, 0>>]
        ms == GridModules(o, 1)
    IN  {DetectorGeometry("AGIPD_1MGeometry", ms),
         DetectorGeometry("AGIPD_1MGeometry",
                          [ms EXCEPT ![1][1].ss_vec = <<Scale \div 2 + 1, Scale \div 2 + 1, 0>>])}

\* n tenths of a pixel.
Tenths(n) == (n * Scale) \div 10

\* Quadrant positions (x, y) that keep AGIPD's quadrants apart, the
\* four side by side: modules run down from the position in the first
\* two quadrants and up to it in the last two.
AGIPDQuadPositions ==
    {<<<<0, Tenths(1000)>>, <<Tenths(200), Tenths(1010)>>,
       <<Tenths(580), Tenths(960)>>, <<Tenths(785), Tenths(970)>>>>,
     <<<<Tenths(6), Tenths(1005)>>, <<Tenths(195), Tenths(994)>>,
       <<Tenths(590), Tenths(970)>>, <<Tenths(785), Tenths(965)>>>>}

\* Quadrant positions (x, y) that keep LPD's quadrants apart, two by two.
LPDQuadPositions ==
    {<<<<0, Tenths(900)>>, <<0, Tenths(450)>>,
       <<Tenths(355), Tenths(450)>>, <<Tenths(350), Tenths(900)>>>>,
     <<<<Tenths(6), Tenths(905)>>, <<Tenths(-5), Tenths(444)>>,
       <<Tenths(360), Tenths(450)>>, <<Tenths(355), Tenths(915)>>>>}

\* Arguments of from_quad_positions: for AGIPD its defaults (asic_gap 2,
\* panel_gap 29) and LPD's (4, 4); for LPD its defaults and wider gaps.
LayoutArgs ==
    [cls : {"AGIPD_1MGeometry"}, quad_pos : AGIPDQuadPositions,
     asic_gap : {2, 4}, panel_gap : {29, 4}]
    \cup [cls : {"LPD_1MGeometry"}, quad_pos : LPDQuadPositions,
           asic_gap : {4, 2}, panel_gap : {4, 7}]

\* Fragments for the operations on one fragment.
VecComps ==
    {-(Scale + Scale \div 2), -Scale, -(Scale \div 2 + 1), -(Scale \div 2), 0,
     Scale \div 2, Scale \div 2 + 1, Scale, Scale + Scale \div 2}
\* The vector (0.9, 0.2, 0).
NearlyAlongX == <<(9 * Scale) \div 10, (2 * Scale) \div 10, 0>>
Vectors ==
    {<<x, y, 0>> : x \in VecComps, y \in VecComps}
        \cup {<<0, 0, Scale>>, <<Scale, 0, Scale>>, NearlyAlongX}
CornerPositions ==
    {<<0, 0, 0>>, <<Scale \div 2, -(Scale + Scale \div 2), 0>>,
     <<-(Scale \div 2 + 1), 2 * Scale + Scale \div 2, Scale>>}
Fragments ==
    {GeometryFragment(c, ss, fs, n[1], n[2]) :
        c \in CornerPositions, ss \in Vectors, fs \in Vectors,
        n \in {<<FragSS, FragFS>>, <<1, FragFS + 1>>}}

(***************************************************************************)
(* Operations on one fragment.                                             *)
(***************************************************************************)
\* A caller runs frag.snap().
snap_call ==
    /\ snap_ret = NoResult
    /\ snap_ret' = snap(frag)
    /\ UNCHANGED <<frag, geom, snapped_cache, nobj, th, calls_left, feed, quad_args, nan_to_int>>

NextSnap == snap_call

(***************************************************************************)
(* Specifications.                                                         *)
(***************************************************************************)
NoGeometry == DetectorGeometry("AGIPD_1MGeometry", <<>>)
NoArgs == [cls |-> "none"]
NoFragment == GeometryFragment(<<0, 0, 0>>, <<0, 0, 0>>, <<0, 0, 0>>, 0, 0)

\* Threads sharing a geometry object.
Init ==
    /\ geom \in SharedGeometries
    /\ snapped_cache = None
    /\ nobj = 0
    /\ th = [t \in 1..NumThreads |-> Idle]
    /\ calls_left = MaxCalls
    /\ feed = {AsFloat(Arange(RawShape)), Arange(<<RawShape[2], RawShape[3]>>)}
    /\ frag = NoFragment
    /\ snap_ret = NoResult
    /\ quad_args = NoArgs
    /\ nan_to_int = "unknown"

Spec == Init /\ [][Next]_vars

\* One caller making one call on a geometry object.
InitSeq ==
    /\ geom \in Geometries
    /\ snapped_cache = None
    /\ nobj = 0
    /\ th = [t \in {1} |-> Idle]
    /\ calls_left = 1
    /\ feed = GoodData \cup BadData
    /\ frag = NoFragment
    /\ snap_ret = NoResult
    /\ quad_args = NoArgs
    /\ nan_to_int = "unknown"

SpecSeq == InitSeq /\ [][Next]_vars

\* One fragment and the operations on it.
InitSnap ==
    /\ frag \in Fragments
    /\ snap_ret = NoResult
    /\ geom = NoGeometry
    /\ snapped_cache = None
    /\ nobj = 0
    /\ th = [t \in {1} |-> Idle]
    /\ calls_left = 0
    /\ feed = {}
    /\ quad_args = NoArgs
    /\ nan_to_int = "unknown"

SpecSnap == InitSnap /\ [][NextSnap]_vars

\* A layout generated from quadrant positions, then one fast assembly.
InitQuad ==
    /\ quad_args \in LayoutArgs
    /\ geom = NoGeometry
    /\ snapped_cache = None
    /\ nobj = 0
    /\ th = [t \in {1} |-> Idle]
    /\ calls_left = 1
    /\ feed = {AsFloat(Arange(expected_data_shape(quad_args.cls)))}
    /\ frag = NoFragment
    /\ snap_ret = NoResult
    /\ nan_to_int = "unknown"

SpecQuad == InitQuad /\ [][NextQuad]_vars

(***************************************************************************)
(* Properties.  What a claim says of a fragment is stated from the         *)
(* fragment's own numbers, by the definitions below, and compared with     *)
(* what the operations returned.                                           *)
(***************************************************************************)
\* The integer nearest to v / Scale; of two equally near, the even one.
Nearest(v) ==
    CHOOSE n \in (v \div Scale)..(v \div Scale + 1) :
        \/ 2 * Abs(v - n * Scale) < Scale
        \/ 2 * Abs(v - n * Scale) = Scale /\ n % 2 = 0

\* The rounded in-plane part of an (x, y, z) vector as (row, col) = (y, x).
RowCol(v) == <<Nearest(v[2]), Nearest(v[1])>>

\* The rounded in-plane ss_vec and fs_vec of f are, up to sign, the two
\* unit vectors (1, 0) and (0, 1), one each.
AxisPermutation(f) ==
    LET ss == RowCol(f.ss_vec)
        fs == RowCol(f.fs_vec)
    IN  \/ Abs(ss[1]) = 1 /\ ss[2] = 0 /\ fs[1] = 0 /\ Abs(fs[2]) = 1
        \/ ss[1] = 0 /\ Abs(ss[2]) = 1 /\ Abs(fs[1]) = 1 /\ fs[2] = 0

NonAxisAlignedGeometry == Raise("AssertionError", "GeometryFragment.snap")
ShapeMismatch == Raise("AssertionError", "SnappedGeometry.position_modules")

\* C1: snap() returns a grid placement descriptor exactly when the rounded
\* in-plane ss_vec and fs_vec are, up to sign, a permutation of (1,0) and
\* (0,1); for every other fragment it raises the assertion error of snap
\* and returns nothing.
C1_SnapExactlyAxisPermutations ==
    snap_ret # NoResult =>
        /\ Returned(snap_ret) <=> AxisPermutation(frag)
        /\ ~AxisPermutation(frag) => snap_ret = NonAxisAlignedGeometry

\* C1 witness: snap() has raised for a fragment whose two vectors round to
\* the same axis, one of them from a tie (0.5 rounds to 0).
C1_Witness ==
    /\ snap_ret = NonAxisAlignedGeometry
    /\ frag.ss_vec = <<Scale, Scale \div 2, 0>>
    /\ frag.fs_vec = <<-Scale, 0, 0>>

\* C3: the descriptor's operator follows the rounded (row, col) vectors:
\* fs_vec's row component 0 means no transpose, pixel_dims (ss, fs), row
\* step ss_vec's row component, column step fs_vec's column component;
\* otherwise a transpose, pixel_dims (fs, ss), row step fs_vec's row
\* component, column step ss_vec's column component.  Both steps are +1 or
\* -1.
C3_OperatorFromRoundedVectors ==
    Returned(snap_ret) =>
        LET d == snap_ret.value
            ss == RowCol(frag.ss_vec)
            fs == RowCol(frag.fs_vec)
        IN  /\ fs[1] = 0 =>
                /\ ~d.transform.swapaxes
                /\ d.pixel_dims = <<frag.ss_pixels, frag.fs_pixels>>
                /\ d.transform.row_step = ss[1]
                /\ d.transform.col_step = fs[2]
            /\ fs[1] # 0 =>
                /\ d.transform.swapaxes
                /\ d.pixel_dims = <<frag.fs_pixels, frag.ss_pixels>>
                /\ d.transform.row_step = fs[1]
                /\ d.transform.col_step = ss[2]
            /\ d.transform.row_step \in {-1, 1}
            /\ d.transform.col_step \in {-1, 1}

\* C3 witness: a descriptor with a transpose whose two steps differ, for a
\* fragment of different ss and fs extents.
C3_Witness ==
    /\ Returned(snap_ret)
    /\ snap_ret.value.transform = [swapaxes |-> TRUE, row_step |-> -1, col_step |-> 1]
    /\ frag.ss_pixels # frag.fs_pixels

\* The grid cell (row, col) that raw pixel (s, f) of fragment f0 lies in
\* once its corner and vectors are rounded: the pixel spans from
\* corner + s*ss + f*fs to corner + (s+1)*ss + (f+1)*fs, and its cell is the
\* smaller index on each axis.
PixelCell(f0, s, f) ==
    LET c == RowCol(f0.corner_pos)
        ss == RowCol(f0.ss_vec)
        fs == RowCol(f0.fs_vec)
    IN  [a \in 1..2 |->
            c[a] + Min(s * ss[a], (s + 1) * ss[a]) + Min(f * fs[a], (f + 1) * fs[a])]

\* All cells of fragment f0.
Footprint(f0) ==
    {PixelCell(f0, s, f) : s \in 0..(f0.ss_pixels - 1), f \in 0..(f0.fs_pixels - 1)}

\* C4: corner_idx is the smallest (row, col) of the cells the block is
\* placed on whatever the flips: the rounded corner, moved back by the
\* block's extent on each axis whose step is negative; opp_corner_idx is
\* corner_idx + pixel_dims, one past the largest cell, and greater than
\* corner_idx in both components.
C4_CornerIsMinimumCorner ==
    Returned(snap_ret) =>
        LET d == snap_ret.value
            c == RowCol(frag.corner_pos)
            cells == Footprint(frag)
            step == <<d.transform.row_step, d.transform.col_step>>
        IN  \A a \in 1..2 :
                /\ d.corner_idx[a] = c[a] - (IF step[a] < 0 THEN d.pixel_dims[a] ELSE 0)
                /\ d.corner_idx[a] = MinOf({x[a] : x \in cells})
                /\ d.opp_corner_idx[a] = d.corner_idx[a] + d.pixel_dims[a]
                /\ d.opp_corner_idx[a] = MaxOf({x[a] : x \in cells}) + 1
                /\ d.opp_corner_idx[a] > d.corner_idx[a]

\* C4 witness: a descriptor with a transpose and both steps negative, from
\* a corner that rounding moves (2.5 to 2, -0.6 to -1).
C4_Witness ==
    /\ Returned(snap_ret)
    /\ snap_ret.value.transform = [swapaxes |-> TRUE, row_step |-> -1, col_step |-> -1]
    /\ frag.corner_pos = <<-(Scale \div 2 + 1), 2 * Scale + Scale \div 2, Scale>>
    /\ frag.ss_pixels # frag.fs_pixels

\* C11 as claimed: snap() of a fragment whose ss_vec is (0.9, 0.2) in the
\* plane raises the assertion error of snap, whatever its fs_vec.
C11_TiltedSsVecFails ==
    frag.ss_vec = NearlyAlongX /\ snap_ret # NoResult
        => snap_ret = NonAxisAlignedGeometry

\* C11 amended: snap() rounds the ss_vec (0.9, 0.2) to (1, 0), the x axis:
\* it returns a descriptor, with ss_vec (0, 1) as (row, col), exactly when
\* fs_vec rounds to (0, 1) or (0, -1), and raises the assertion error of
\* snap for every other fs_vec.
C11_TiltedSsVecRoundsToAxis ==
    frag.ss_vec = NearlyAlongX /\ snap_ret # NoResult =>
        IF Nearest(frag.fs_vec[1]) = 0 /\ Abs(Nearest(frag.fs_vec[2])) = 1
        THEN Returned(snap_ret) /\ snap_ret.value.ss_vec = <<0, 1>>
        ELSE snap_ret = NonAxisAlignedGeometry

\* C11 witness: snap() has returned a descriptor for a fragment with
\* ss_vec (0.9, 0.2) and fs_vec along y.
C11_Witness ==
    /\ Returned(snap_ret)
    /\ frag.ss_vec = NearlyAlongX
    /\ frag.fs_vec = <<0, Scale, 0>>

\* The bounding rectangle of the unsnapped polygon corners() on axis a of
\* (row, col), in units of 1 / Scale pixel: its lower and upper side.
PolygonSides(f0, a) ==
    LET pts == {corners(f0)[k][3 - a] : k \in 1..4}
    IN  <<MinOf(pts), MaxOf(pts)>>

\* How far rounding moves the corner and the far end of fragment f0 on
\* axis a at most, in units of 1 / (2 * Scale) pixel: half a pixel for the
\* corner, and for each vector its extent times the change of its
\* component.
RoundingSlack(f0, a) ==
    Scale + 2 * f0.ss_pixels * Abs(f0.ss_vec[3 - a] - Scale * Nearest(f0.ss_vec[3 - a]))
          + 2 * f0.fs_pixels * Abs(f0.fs_vec[3 - a] - Scale * Nearest(f0.fs_vec[3 - a]))

\* C12 as claimed: each side of the snapped rectangle is at most one pixel
\* from the same side of the bounding rectangle of corners().
C12_WithinOnePixelOfPolygon ==
    Returned(snap_ret) =>
        \A a \in 1..2 :
            /\ Abs(Scale * snap_ret.value.corner_idx[a] - PolygonSides(frag, a)[1]) <= Scale
            /\ Abs(Scale * snap_ret.value.opp_corner_idx[a] - PolygonSides(frag, a)[2]) <= Scale

\* C12 amended: each side of the snapped rectangle is from the same side
\* of the bounding rectangle of corners() at most half a pixel plus
\* ss_pixels and fs_pixels times what rounding changes of ss_vec and of
\* fs_vec on that axis; so at most half a pixel when both vectors are
\* unit vectors along the axes.
C12_WithinRoundingOfPolygon ==
    Returned(snap_ret) =>
        \A a \in 1..2 :
            /\ 2 * Abs(Scale * snap_ret.value.corner_idx[a] - PolygonSides(frag, a)[1])
                    <= RoundingSlack(frag, a)
            /\ 2 * Abs(Scale * snap_ret.value.opp_corner_idx[a] - PolygonSides(frag, a)[2])
                    <= RoundingSlack(frag, a)
            /\ frag.ss_vec[3 - a] = Scale * Nearest(frag.ss_vec[3 - a])
                    /\ frag.fs_vec[3 - a] = Scale * Nearest(frag.fs_vec[3 - a])
                => /\ 2 * Abs(Scale * snap_ret.value.corner_idx[a]
                                - PolygonSides(frag, a)[1]) <= Scale
                   /\ 2 * Abs(Scale * snap_ret.value.opp_corner_idx[a]
                                - PolygonSides(frag, a)[2]) <= Scale

\* C12 witness: a descriptor for a fragment whose fs_vec (0, 0.6) is
\* rounded to (0, 1) and whose corner is moved by rounding.
C12_Witness ==
    /\ Returned(snap_ret)
    /\ frag.fs_vec = <<0, Scale \div 2 + 1, 0>>
    /\ frag.ss_vec = <<-Scale, 0, 0>>
    /\ frag.corner_pos = <<Scale \div 2, -(Scale + Scale \div 2), 0>>
    /\ frag.fs_pixels = FragFS + 1

(***************************************************************************)
(* Properties of fast assembly.                                            *)
(***************************************************************************)
\* Tile q is placed after tile p by the loops of position_modules.
PlacedLater(p, q) == q[1] > p[1] \/ (q[1] = p[1] /\ q[2] > p[2])

\* Raw pixel (s, f) of tile p (1-based module and tile): its index in the
\* detector's (module, ss, fs) data, tile j being the j-th block of FragSS
\* slow-scan rows.
RawIndex(p, s, f) == <<p[1] - 1, (p[2] - 1) * FragSS + s, f>>

\* The canvas cells of tile p of the geometry for a centre offset.
CanvasCells(p, centre) ==
    {<<c[1] + centre[1], c[2] + centre[2]>> : c \in Footprint(geom.modules[p[1]][p[2]])}

\* Every raw pixel of every tile is at its canvas cell, in every batch
\* frame; with `unless_overwritten`, except where a tile placed later
\* covers that cell.
PixelsAtTheirCells(t, unless_overwritten) ==
    LET data == th[t].data
        out == th[t].ret.value.out
        centre == th[t].ret.value.centre
        tiles == TilesOf(geom.modules)
    IN  \A p \in tiles :
        \A s \in 0..(geom.modules[p[1]][p[2]].ss_pixels - 1) :
        \A f \in 0..(geom.modules[p[1]][p[2]].fs_pixels - 1) :
            LET c == PixelCell(geom.modules[p[1]][p[2]], s, f)
                cell == <<c[1] + centre[1], c[2] + centre[2]>>
                hidden == \E q \in tiles : PlacedLater(p, q) /\ cell \in CanvasCells(q, centre)
            IN  \/ \A b \in Indices(LeadDims(data.shape, 3)) :
                    /\ (b \o cell) \in Indices(out.shape)
                    /\ out.val[b \o cell] = data.val[b \o RawIndex(p, s, f)]
                \/ unless_overwritten /\ hidden

\* Every canvas cell that no tile covers holds the no-data value.
UncoveredCellsAreNaN(t) ==
    LET out == th[t].ret.value.out
        centre == th[t].ret.value.centre
        covered == UNION {CanvasCells(p, centre) : p \in TilesOf(geom.modules)}
    IN  \A idx \in Indices(out.shape) :
            LastDims(idx, 2) \notin covered => out.val[idx] = NaN

\* What a canvas of a dtype holds where np.full stored np.nan: NaN in a
\* floating-point canvas, the cast integer in an integer canvas.
NoDataOf(dtype) == IF IsInteger(dtype) THEN IntMin ELSE NaN

\* Every canvas cell that no tile covers holds the no-data value of the
\* canvas' dtype.
UncoveredCellsHoldNoData(t) ==
    LET out == th[t].ret.value.out
        centre == th[t].ret.value.centre
        covered == UNION {CanvasCells(p, centre) : p \in TilesOf(geom.modules)}
    IN  \A idx \in Indices(out.shape) :
            LastDims(idx, 2) \notin covered => out.val[idx] = NoDataOf(out.dtype)

\* The tiles of the geometry cover every cell of a canvas of this shape and
\* no two of them share a cell.
GaplessGrid(shape, centre) ==
    LET tiles == TilesOf(geom.modules)
    IN  /\ UNION {CanvasCells(p, centre) : p \in tiles} = Indices(LastDims(shape, 2))
        /\ \A p, q \in tiles : p # q => CanvasCells(p, centre) \cap CanvasCells(q, centre) = {}

\* C2 as claimed: after a fast assembly that returned, every raw pixel of
\* every tile is at the canvas cell its rounded position falls in, cells no
\* tile covers hold the no-data value, and a gapless grid leaves none.
C2_EveryPixelAtItsCell ==
    \A t \in Threads :
        Finished(t, "position_modules_fast") /\ Returned(th[t].ret) =>
            /\ PixelsAtTheirCells(t, FALSE)
            /\ UncoveredCellsAreNaN(t)

\* C2 amended: after a fast assembly that returned, the canvas has the
\* dtype of the data and every raw pixel of every tile is at the canvas
\* cell its rounded position falls in unless a tile placed later covers
\* that cell; cells no tile covers hold the no-data value, which is NaN
\* for floating-point data and the integer NaN was cast to for integer
\* data; for a gapless grid of tiles that do not overlap the canvas holds
\* no no-data value and every pixel is at its cell.
C2_PixelAtItsCellUnlessOverwritten ==
    \A t \in Threads :
        Finished(t, "position_modules_fast") /\ Returned(th[t].ret) =>
            /\ th[t].ret.value.out.dtype = th[t].data.dtype
            /\ PixelsAtTheirCells(t, TRUE)
            /\ UncoveredCellsHoldNoData(t)
            /\ GaplessGrid(th[t].ret.value.out.shape, th[t].ret.value.centre) =>
                /\ PixelsAtTheirCells(t, FALSE)
                /\ \A idx \in Indices(th[t].ret.value.out.shape) :
                        th[t].ret.value.out.val[idx] \notin {NaN, IntMin}

\* C2 witness: a returned assembly of batched data on a gapless grid whose
\* tiles need a transpose and a flip of the rows.
C2_Witness ==
    \E t \in Threads :
        /\ Finished(t, "position_modules_fast") /\ Returned(th[t].ret)
        /\ Len(th[t].data.shape) = 5
        /\ GaplessGrid(th[t].ret.value.out.shape, th[t].ret.value.centre)
        /\ th[t].snapped.modules[1][1].transform
                = [swapaxes |-> TRUE, row_step |-> -1, col_step |-> 1]

\* C5: the canvas size is the element-wise maximum of the tiles'
\* opp_corner_idx minus the element-wise minimum of their corner_idx, the
\* centre is minus that minimum (whatever the data), and every tile's
\* rectangle, moved by the centre, lies within [0, size) on both axes.
C5_CanvasFromCorners ==
    \A t \in Threads :
        Finished(t, "position_modules_fast") /\ Returned(th[t].ret) =>
            LET layout == th[t].snapped.modules
                ds == {layout[p[1]][p[2]] : p \in TilesOf(layout)}
                lo == [a \in 1..2 |-> MinOf({d.corner_idx[a] : d \in ds})]
                hi == [a \in 1..2 |-> MaxOf({d.opp_corner_idx[a] : d \in ds})]
                size == LastDims(th[t].ret.value.out.shape, 2)
                centre == th[t].ret.value.centre
            IN  \A a \in 1..2 :
                    /\ size[a] = hi[a] - lo[a]
                    /\ centre[a] = -lo[a]
                    /\ \A d \in ds :
                        /\ 0 <= d.corner_idx[a] + centre[a]
                        /\ d.corner_idx[a] + centre[a] < d.opp_corner_idx[a] + centre[a]
                        /\ d.opp_corner_idx[a] + centre[a] <= size[a]

\* C5 witness: a returned assembly whose centre is not the origin, on a
\* geometry with gaps.
C5_Witness ==
    \E t \in Threads :
        /\ Finished(t, "position_modules_fast") /\ Returned(th[t].ret)
        /\ th[t].ret.value.centre[1] > 0 /\ th[t].ret.value.centre[2] > 0
        /\ ~GaplessGrid(th[t].ret.value.out.shape, th[t].ret.value.centre)

\* Every tile of the geometry snaps.
Snappable == \A p \in TilesOf(geom.modules) : AxisPermutation(geom.modules[p[1]][p[2]])

\* C6 as claimed: a call of position_modules_fast ends with the shape
\* assertion of position_modules exactly when the last three dimensions of
\* its data are not the detector's shape; every output returned keeps the data's
\* batch dimensions and has the shape (batch..., rows, cols).
C6_ShapeCheckedBatchKept ==
    \A t \in Threads :
        Finished(t, "position_modules_fast") =>
            /\ LastDims(th[t].data.shape, 3) # expected_data_shape(geom.cls)
                    <=> th[t].ret = ShapeMismatch
            /\ Returned(th[t].ret) =>
                    /\ Len(th[t].ret.value.out.shape) = Len(th[t].data.shape) - 1
                    /\ LeadDims(th[t].ret.value.out.shape, 2) = LeadDims(th[t].data.shape, 3)

\* C6 amended: position_modules_fast snaps the geometry first: if a tile
\* does not snap the call ends with the assertion of snap whatever the
\* data; otherwise it ends with the shape assertion of position_modules,
\* no output returned, exactly when the last three dimensions of the data
\* are not the detector's shape.  Every output it returns is for data of the detector's shape
\* and has the shape (batch..., rows, cols), the batch dimensions those of
\* the data and rows, cols the canvas size of the layout.
C6_ShapeCheckedAfterSnap ==
    \A t \in Threads :
        Finished(t, "position_modules_fast") =>
            LET bad == LastDims(th[t].data.shape, 3) # expected_data_shape(geom.cls)
            IN  /\ ~Snappable => th[t].ret = NonAxisAlignedGeometry
                /\ Snappable => (bad <=> th[t].ret = ShapeMismatch)
                /\ Returned(th[t].ret) =>
                    /\ ~bad
                    /\ Len(th[t].ret.value.out.shape) = Len(th[t].data.shape) - 1
                    /\ LeadDims(th[t].ret.value.out.shape, 2) = LeadDims(th[t].data.shape, 3)
                    /\ LastDims(th[t].ret.value.out.shape, 2)
                            = SnappedGetDimensions(th[t].snapped).value.size

\* C6 witness: on one geometry that snaps, a call with two batch
\* dimensions has returned.
C6_Witness ==
    \E t \in Threads :
        /\ Finished(t, "position_modules_fast") /\ Returned(th[t].ret)
        /\ LeadDims(th[t].ret.value.out.shape, 2) = <<1, 2>>

\* C9 as claimed: once the geometry has been snapped, a fast assembly call
\* fails only with the shape assertion on the caller's data.
C9_OnlyShapeErrorsAfterSnap ==
    \A t \in Threads :
        /\ Finished(t, "position_modules_fast")
        /\ th[t].snapped # None
        /\ Raised(th[t].ret)
        => th[t].ret = ShapeMismatch

(***************************************************************************)
(* Properties of the three paths on a geometry that does not snap.         *)
(***************************************************************************)
\* Every tile has the slow-scan extent of the detector's tiles and lies
\* within the detector's modules and tiles per module.
FitsDetector ==
    /\ Len(geom.modules) <= NumModules
    /\ \A p \in TilesOf(geom.modules) :
        /\ p[2] <= TilesPerModule
        /\ geom.modules[p[1]][p[2]].ss_pixels = FragSS

\* The in-plane ss_vec and fs_vec of some tile are linearly dependent.
SomeTileDegenerate ==
    \E p \in TilesOf(geom.modules) :
        LET f == geom.modules[p[1]][p[2]]
        IN  f.ss_vec[1] * f.fs_vec[2] = f.ss_vec[2] * f.fs_vec[1]

\* C10 as claimed: on a geometry with a tile that is no axis permutation,
\* position_modules_fast and to_distortion_array end with the assertion of
\* snap, and position_modules_interpolate returns a result.
C10_FastAndDistortionFail ==
    \A t \in Threads :
        ~Snappable =>
            /\ Finished(t, "position_modules_fast") => th[t].ret = NonAxisAlignedGeometry
            /\ Finished(t, "to_distortion_array") => th[t].ret = NonAxisAlignedGeometry
            /\ Finished(t, "position_modules_interpolate")
                    /\ th[t].data.shape = expected_data_shape(geom.cls)
                    => Returned(th[t].ret)

\* C10 amended: on a geometry with a tile that is no axis permutation,
\* only position_modules_fast ends with the assertion of snap.
\* to_distortion_array and position_modules_interpolate never snap and
\* never end with it: to_distortion_array returns its table when the tiles
\* fit the detector's layout, and position_modules_interpolate, given data
\* of the detector's shape, returns a result unless some tile's in-plane
\* ss_vec and fs_vec are linearly dependent, when it ends with LinAlgError.
C10_OnlyFastPathFails ==
    \A t \in Threads :
        ~Snappable =>
            /\ Finished(t, "position_modules_fast") => th[t].ret = NonAxisAlignedGeometry
            /\ Finished(t, "to_distortion_array") =>
                /\ th[t].ret # NonAxisAlignedGeometry
                /\ FitsDetector => Returned(th[t].ret)
            /\ Finished(t, "position_modules_interpolate") =>
                /\ th[t].ret # NonAxisAlignedGeometry
                /\ th[t].data.shape = expected_data_shape(geom.cls) /\ FitsDetector =>
                    IF SomeTileDegenerate
                    THEN th[t].ret = Raise("LinAlgError",
                                           "AGIPD_1MGeometry.position_modules_interpolate")
                    ELSE Returned(th[t].ret)

\* C10 witness: on a geometry with a tile that is no axis permutation,
\* to_distortion_array has returned its table.
C10_Witness ==
    \E t \in Threads :
        /\ ~Snappable
        /\ Finished(t, "to_distortion_array")
        /\ Returned(th[t].ret)

(***************************************************************************)
(* Properties of the layout cache.                                         *)
(***************************************************************************)
\* C7 as claimed: the layout is computed and stored once, whatever the
\* interleaving of the calls: at most one SnappedGeometry object is ever
\* constructed and every caller that got a layout got that object.
C7_LayoutStoredOnce ==
    /\ nobj <= 1
    /\ \A t \in Threads : th[t].snapped # None => th[t].snapped.id = 1

\* The cells of all tiles of the geometry, from its fragments' rounded
\* corners and vectors.
FragmentCells ==
    UNION {Footprint(geom.modules[p[1]][p[2]]) : p \in TilesOf(geom.modules)}

\* The centre and the size of the canvas around the cells of the
\* geometry's fragments.
FragmentCentre ==
    <<-MinOf({c[1] : c \in FragmentCells}), -MinOf({c[2] : c \in FragmentCells})>>
FragmentSize ==
    <<MaxOf({c[1] : c \in FragmentCells}) - MinOf({c[1] : c \in FragmentCells}) + 1,
      MaxOf({c[2] : c \in FragmentCells}) - MinOf({c[2] : c \in FragmentCells}) + 1>>

\* What thread t got back is the assembly of its data on a layout made
\* anew from the geometry's fragments: the centre and the canvas size of
\* the fragments' cells, the data's batch dimensions and dtype, every raw
\* pixel at the cell its fragment puts it on unless a fragment placed
\* later covers the cell, and the no-data value everywhere else.
AssemblyOfFragments(t) ==
    /\ th[t].ret.value.centre = FragmentCentre
    /\ th[t].ret.value.out.shape = LeadDims(th[t].data.shape, 3) \o FragmentSize
    /\ th[t].ret.value.out.dtype = th[t].data.dtype
    /\ PixelsAtTheirCells(t, TRUE)
    /\ UncoveredCellsHoldNoData(t)

\* C8: two fast assembly calls with the same data end alike (the same
\* output array and centre, or the same exception), whichever of them
\* computed the layout and whichever found it in the cache, and every
\* call that returned, a call that used the cached layout included,
\* returned the assembly of its data on a layout made anew from the
\* geometry's fragments.
C8_FastAssemblyIdempotent ==
    /\ \A t, u \in Threads :
        /\ Finished(t, "position_modules_fast")
        /\ Finished(u, "position_modules_fast")
        /\ th[t].data = th[u].data
        => th[t].ret = th[u].ret
    /\ \A t \in Threads :
        Finished(t, "position_modules_fast") /\ Returned(th[t].ret) =>
            AssemblyOfFragments(t)

\* C8 witness: two calls with the same data have returned an assembly
\* whose centre is not the origin, the first having computed the layout
\* and the second having found it cached.
C8_Witness ==
    \E t, u \in Threads :
        /\ Finished(t, "position_modules_fast") /\ Returned(th[t].ret)
        /\ Finished(u, "position_modules_fast") /\ Returned(th[u].ret)
        /\ th[t].data = th[u].data
        /\ th[t].fresh /\ ~th[u].fresh
        /\ th[u].ret.value.centre # <<0, 0>>
(***************************************************************************)
(* Properties of the layout generators.                                    *)
(***************************************************************************)
\* from_quad_positions of class cls has returned the geometry.
LayoutBuilt(cls) == quad_args.cls = cls /\ geom.modules # <<>>

\* Corner of tile a of module p minus the corner of the module's first
\* tile (1-based), fixed point.
TileOffset(p, a) ==
    [k \in 1..3 |-> geom.modules[p][a].corner_pos[k] - geom.modules[p][1].corner_pos[k]]

\* v times the unit vector u, fixed point.
Along(v, u) == [k \in 1..3 |-> v * u[k]]

\* C13 as claimed: AGIPD's from_quad_positions puts the corner of tile 0 of
\* module 0 at the first quadrant position and the corner of tile a of
\* every module a * (frag_ss_pixels + asic_gap) pixels from the corner of
\* tile 0 in the direction of the tile's fs_vec.
C13_TilesAlongFastScan ==
    LayoutBuilt("AGIPD_1MGeometry") =>
        /\ geom.modules[1][1].corner_pos
                = <<quad_args.quad_pos[1][1], quad_args.quad_pos[1][2], 0>>
        /\ \A p \in TilesOf(geom.modules) :
                TileOffset(p[1], p[2])
                    = Along((p[2] - 1) * (FragSS + quad_args.asic_gap),
                            geom.modules[p[1]][p[2]].fs_vec)

\* C13 amended: AGIPD's from_quad_positions puts the corner of tile 0 of
\* module 0 at the first quadrant position and the corner of tile a of
\* every module a * (frag_ss_pixels + asic_gap) pixels from the corner of
\* tile 0 in the direction of the tile's ss_vec, the slow-scan axis; along
\* the fs_vec all tiles of a module have the same position.
C13_TilesAlongSlowScan ==
    LayoutBuilt("AGIPD_1MGeometry") =>
        /\ geom.modules[1][1].corner_pos
                = <<quad_args.quad_pos[1][1], quad_args.quad_pos[1][2], 0>>
        /\ Len(geom.modules) = NumModules
        /\ \A p \in TilesOf(geom.modules) :
            /\ Len(geom.modules[p[1]]) = TilesPerModule
            /\ TileOffset(p[1], p[2])
                    = Along((p[2] - 1) * (FragSS + quad_args.asic_gap),
                            geom.modules[p[1]][p[2]].ss_vec)
            /\ \A k \in 1..3 :
                    geom.modules[p[1]][p[2]].fs_vec[k] # 0 => TileOffset(p[1], p[2])[k] = 0

\* C13 witness: the layout for asic_gap 2 and panel_gap 29 is built; the
\* last tile of a module of quadrant 2 or 3, whose ss_vec is -x, is
\* (TilesPerModule - 1) * (frag_ss_pixels + 2) pixels towards -x.
C13_Witness ==
    /\ LayoutBuilt("AGIPD_1MGeometry")
    /\ quad_args.asic_gap = 2 /\ quad_args.panel_gap = 29
    /\ \E p \in 1..Len(geom.modules) :
        /\ geom.modules[p][1].ss_vec = <<-Scale, 0, 0>>
        /\ TileOffset(p, TilesPerModule)
                = <<-Scale * ((TilesPerModule - 1) * (FragSS + 2)), 0, 0>>
(***************************************************************************)
(* Properties of the two assembly entry points.                            *)
(***************************************************************************)
\* The geometry has tiles, all within the detector's modules and tiles per
\* module and all of the detector's tile extents.
DetectorTiles ==
    /\ TilesOf(geom.modules) # {}
    /\ FitsDetector
    /\ \A p \in TilesOf(geom.modules) : geom.modules[p[1]][p[2]].fs_pixels = FragFS

\* The exception of the shape assertion of position_modules_interpolate.
InterpolateShapeMismatch ==
    Raise("AssertionError", "AGIPD_1MGeometry.position_modules_interpolate")

\* The exception of np.full when it cannot store np.nan in an integer
\* array.
NanToIntError == Raise("ValueError", "SnappedGeometry.position_modules")

\* position_modules_fast was given data whose last three dimensions are
\* the detector's shape, on a geometry that snaps, of the detector's tiles.
FastGivenBatch(t) ==
    /\ Finished(t, "position_modules_fast")
    /\ LastDims(th[t].data.shape, 3) = expected_data_shape(geom.cls)
    /\ Snappable /\ DetectorTiles

\* position_modules_fast has returned an array with the batch dimensions
\* of the data followed by the canvas size, and the centre of the layout.
FastKeptBatch(t) ==
    /\ Returned(th[t].ret)
    /\ th[t].ret.value.out.shape
         = LeadDims(th[t].data.shape, 3) \o SnappedGetDimensions(th[t].snapped).value.size
    /\ th[t].ret.value.centre = SnappedGetDimensions(th[t].snapped).value.centre

\* position_modules_fast, given data whose last three dimensions are the
\* detector's shape, keeps the batch dimensions: always for floating-point
\* data, and for integer data unless np.full ends the call with ValueError.
FastKeepsBatch(t) ==
    FastGivenBatch(t) =>
        IF IsInteger(th[t].data.dtype)
        THEN FastKeptBatch(t) \/ th[t].ret = NanToIntError
        ELSE FastKeptBatch(t)

\* C14 as claimed: position_modules_fast and position_modules_interpolate,
\* given data whose last three dimensions are the detector's shape, with
\* any leading batch dimensions, return the assembled array and the centre.
C14_BothAcceptBatch ==
    \A t \in Threads :
        /\ FastGivenBatch(t) => FastKeptBatch(t)
        /\ /\ Finished(t, "position_modules_interpolate")
           /\ LastDims(th[t].data.shape, 3) = expected_data_shape(geom.cls)
           /\ DetectorTiles /\ ~SomeTileDegenerate
           => Returned(th[t].ret)

\* C14 amended: position_modules_fast accepts any leading batch dimensions
\* and keeps them in the array it returns with the centre, for
\* floating-point data always and for integer data unless np.full ends the
\* call with ValueError;
\* position_modules_interpolate accepts only data of exactly the
\* detector's three-dimensional shape, for which it returns the canvas and
\* the centre of _get_dimensions, and ends with its shape assertion for
\* every other data, data with a leading batch dimension included.
C14_OnlyFastAcceptsBatch ==
    \A t \in Threads :
        /\ FastKeepsBatch(t)
        /\ Finished(t, "position_modules_interpolate") =>
            /\ th[t].data.shape # expected_data_shape(geom.cls)
                    <=> th[t].ret = InterpolateShapeMismatch
            /\ th[t].data.shape = expected_data_shape(geom.cls)
                    /\ DetectorTiles /\ ~SomeTileDegenerate
                => /\ Returned(th[t].ret)
                   /\ th[t].ret.value.shape = GetDimensions(geom).value.size
                   /\ th[t].ret.value.centre = GetDimensions(geom).value.centre

\* C14 witness: on a geometry that snaps, with the detector's tiles, none
\* degenerate, position_modules_interpolate has ended with its shape
\* assertion for data with two batch dimensions whose last three
\* dimensions are the detector's shape.
C14_Witness ==
    \E u \in Threads :
        /\ Snappable /\ DetectorTiles /\ ~SomeTileDegenerate
        /\ Finished(u, "position_modules_interpolate")
        /\ Len(th[u].data.shape) = 5
        /\ LastDims(th[u].data.shape, 3) = expected_data_shape(geom.cls)
        /\ th[u].ret = InterpolateShapeMismatch
(***************************************************************************)
(* Properties of the distortion array.                                     *)
(***************************************************************************)
\* The offsets (ds, df) of a pixel's four corners, doubled, in the order
\* (-0.5, -0.5), (+0.5, -0.5), (+0.5, +0.5), (-0.5, +0.5).
CornerOrder == <<<<-1, -1>>, <<1, -1>>, <<1, 1>>, <<-1, 1>>>>

\* Coordinate c (1: x, 2: y, 3: z) of corner k of pixel (s, f) of a tile:
\* corner_pos + (s + ds) * ss_vec + (f + df) * fs_vec, doubled.
CornerPoint(tile, s, f, k, c) ==
    2 * tile.corner_pos[c] + (2 * s + CornerOrder[k][1]) * tile.ss_vec[c]
                           + (2 * f + CornerOrder[k][2]) * tile.fs_vec[c]

\* The row of the distortion array for slow-scan row s of tile p.
DistortionRow(p, s) == (p[1] - 1) * (TilesPerModule * FragSS) + (p[2] - 1) * FragSS + s

\* The values of coordinate c (0: z, 1: y, 2: x) in a distortion array.
Coordinates(table, c) == {table.val[idx] : idx \in {i \in Indices(table.shape) : i[4] = c}}

\* C15: to_distortion_array returns for a geometry of the detector's tiles;
\* the table it returns holds, for every pixel (s, f) of every tile, the
\* corners corner_pos + (s + ds) * ss_vec + (f + df) * fs_vec for (ds, df)
\* in the order (-0.5, -0.5), (+0.5, -0.5), (+0.5, +0.5), (-0.5, +0.5), as
\* (z, y, x), with x and y moved by one shift each for the whole table and
\* z not moved; in every table returned the least x and the least y are 0.
C15_CornersInOrderShifted ==
    \A t \in Threads :
        Finished(t, "to_distortion_array") =>
            /\ DetectorTiles => Returned(th[t].ret)
            /\ Returned(th[t].ret) =>
                LET table == th[t].ret.value
                    tiles == TilesOf(geom.modules)
                    p0 == CHOOSE p \in tiles : TRUE
                    at(p, s, f, k, c) == table.val[<<DistortionRow(p, s), f, k - 1, c>>]
                    shift_x == CornerPoint(geom.modules[p0[1]][p0[2]], 0, 0, 1, 1)
                                    - at(p0, 0, 0, 1, 2)
                    shift_y == CornerPoint(geom.modules[p0[1]][p0[2]], 0, 0, 1, 2)
                                    - at(p0, 0, 0, 1, 1)
                IN  /\ MinOf(Coordinates(table, 2)) = 0
                    /\ MinOf(Coordinates(table, 1)) = 0
                    /\ DetectorTiles =>
                        \A p \in tiles :
                        \A s \in 0..(FragSS - 1), f \in 0..(FragFS - 1), k \in 1..4 :
                            LET tile == geom.modules[p[1]][p[2]]
                            IN  /\ at(p, s, f, k, 0) = CornerPoint(tile, s, f, k, 3)
                                /\ at(p, s, f, k, 1) = CornerPoint(tile, s, f, k, 2) - shift_y
                                /\ at(p, s, f, k, 2) = CornerPoint(tile, s, f, k, 1) - shift_x

\* C15 witness: a table returned for a geometry of the detector's tiles
\* whose first tile has ss_vec (1, 0, 0) and fs_vec (0, 1, 0): the corners
\* of its pixel (0, 0) go +1 in x, +1 in y, -1 in x; some z is negative.
C15_Witness ==
    \E t \in Threads :
        /\ Finished(t, "to_distortion_array") /\ Returned(th[t].ret)
        /\ DetectorTiles
        /\ geom.modules[1][1].ss_vec = <<Scale, 0, 0>>
        /\ geom.modules[1][1].fs_vec = <<0, Scale, 0>>
        /\ LET v == th[t].ret.value.val
           IN  /\ v[<<0, 0, 1, 2>>] - v[<<0, 0, 0, 2>>] = 2 * Scale
               /\ v[<<0, 0, 1, 1>>] = v[<<0, 0, 0, 1>>]
               /\ v[<<0, 0, 2, 1>>] - v[<<0, 0, 1, 1>>] = 2 * Scale
               /\ v[<<0, 0, 3, 2>>] - v[<<0, 0, 2, 2>>] = -2 * Scale
        /\ \E z \in Coordinates(th[t].ret.value, 0) : z < 0
(***************************************************************************)
(* Properties of split_tiles with the layout of from_quad_positions.       *)
(***************************************************************************)
\* The values held by an array.
ValuesOf(arr) == {arr.val[idx] : idx \in Indices(arr.shape)}

\* Position of the canvas cell (row, col) along the in-plane direction vec
\* given as (x, y, z).
AlongVec(cell, vec) == cell[2] * vec[1] + cell[1] * vec[2]

\* C16: split_tiles returns, for every module, as many blocks as the module
\* has tiles, each of shape (frag_ss_pixels, frag_fs_pixels), and every raw
\* pixel of the module is in exactly one block; after fast assembly of the
\* geometry of from_quad_positions every raw pixel is at exactly one canvas
\* cell, and within every module the cell moves forward along ss_vec with
\* the raw slow-scan index and forward along fs_vec with the raw fast-scan
\* index.
C16_SplitMatchesLayout ==
    \A t \in Threads :
        Finished(t, "position_modules_fast") =>
            /\ Returned(th[t].ret)
            /\ th[t].data = AsFloat(Arange(expected_data_shape(geom.cls))) =>
                LET data == th[t].data
                    out == th[t].ret.value.out
                    cells == {<<out.val[idx], idx>> :
                                idx \in {i \in Indices(out.shape) : out.val[i] # NaN}}
                    rows == data.shape[2]
                    cols == data.shape[3]
                IN  \A i \in 1..Len(geom.modules) :
                    LET mod_data == TakeModule(data, i - 1)
                        blocks == split_tiles(geom.cls, mod_data)
                        ss_vec == geom.modules[i][1].ss_vec
                        fs_vec == geom.modules[i][1].fs_vec
                        cell(r, c) == (CHOOSE w \in cells : w[1] = data.val[<<i - 1, r, c>>])[2]
                    IN  /\ Len(blocks) = Len(geom.modules[i])
                        /\ \A j \in 1..Len(blocks) :
                                blocks[j].shape = <<frag_ss_pixels(geom.cls),
                                                    frag_fs_pixels(geom.cls)>>
                        /\ UNION {ValuesOf(blocks[j]) : j \in 1..Len(blocks)}
                                = ValuesOf(mod_data)
                        /\ Len(blocks) * frag_ss_pixels(geom.cls) * frag_fs_pixels(geom.cls)
                                = rows * cols
                        /\ \A r \in 0..(rows - 1), c \in 0..(cols - 1) :
                            /\ Cardinality({w \in cells : w[1] = data.val[<<i - 1, r, c>>]}) = 1
                            /\ r > 0 => AlongVec(cell(r - 1, c), ss_vec)
                                            < AlongVec(cell(r, c), ss_vec)
                            /\ c > 0 => AlongVec(cell(r, c - 1), fs_vec)
                                            < AlongVec(cell(r, c), fs_vec)

\* C16 witness: fast assembly has returned for the LPD layout and data
\* with all values distinct; the first raw row of the first module, which
\* split_tiles puts in the block of tile TilesPerModule - 1, the lowest
\* tile of the left-hand column, is at a lower canvas row than the last
\* raw row of the module.
C16_Witness ==
    \E t \in Threads :
        /\ Finished(t, "position_modules_fast") /\ Returned(th[t].ret)
        /\ LayoutBuilt("LPD_1MGeometry")
        /\ th[t].data = AsFloat(Arange(expected_data_shape(geom.cls)))
        /\ Len(geom.modules[1]) = 2 * TilesPerModule
        /\ LET out == th[t].ret.value.out
               first == CHOOSE idx \in Indices(out.shape) :
                            out.val[idx] = th[t].data.val[<<0, 0, 0>>]
               last == CHOOSE idx \in Indices(out.shape) :
                            out.val[idx] = th[t].data.val[<<0, th[t].data.shape[2] - 1, 0>>]
           IN  /\ first[1] < last[1]
               /\ first[2] = last[2]
(***************************************************************************)
(* Properties of a layout computation that fails.                          *)
(***************************************************************************)
\* C17: on a geometry with a tile whose snap() raises, the layout cache
\* stays empty, no SnappedGeometry is constructed, and every finished call
\* of position_modules_fast or _snapped has ended with the assertion of
\* snap; no step changes the geometry's modules; on such a geometry every
\* call that tests the cache goes on to snap the tiles again; and a call
\* that finds the cache filled never snaps.
C17_FailedSnapStoresNothing ==
    /\ [](~Snappable =>
            /\ snapped_cache = None
            /\ nobj = 0
            /\ \A t \in Threads :
                    Finished(t, "position_modules_fast") \/ Finished(t, "_snapped")
                        => th[t].ret = NonAxisAlignedGeometry)
    /\ [][geom' = geom]_vars
    /\ [][\A t \in Threads :
            /\ ~Snappable
            /\ th[t].pc = "if_cache_is_none"
            /\ th'[t].pc # "if_cache_is_none"
            => th'[t].pc = "snap_modules"]_vars
    /\ [][\A t \in Threads :
            /\ snapped_cache # None
            /\ th[t].pc = "if_cache_is_none"
            => th'[t].pc # "snap_modules"]_vars

\* C17 witness: on a geometry with a tile whose snap() raises, all calls
\* have been made, two threads have each ended a position_modules_fast
\* call with the assertion of snap, and the cache is empty.
C17_Witness ==
    /\ ~Snappable
    /\ calls_left = 0
    /\ snapped_cache = None
    /\ \E t, u \in Threads :
        /\ t # u
        /\ Finished(t, "position_modules_fast") /\ th[t].ret = NonAxisAlignedGeometry
        /\ Finished(u, "position_modules_fast") /\ th[u].ret = NonAxisAlignedGeometry
====
